---- MODULE Spec2Model ----
(***************************************************************************)
(* PalPalette controller: the device lifecycle state machine (main.cpp),   *)
(* its ErrorHandler and ExponentialBackoff classes, and the WSClient       *)
(* session client, as one state machine driven by the cooperative loop().  *)
(*                                                                         *)
(* Time is millis() in milliseconds.  It advances at the start of a tick   *)
(* and inside the one blocking call (WiFiManager::connectToWiFi); delays   *)
(* shorter than the smallest time step (delay(100), delay(500)) are not    *)
(* counted.  MaxTime bounds the time up to which a tick still advances     *)
(* the clock; millis() does not wrap within it.                            *)
(***************************************************************************)
EXTENDS Integers, Sequences, FiniteSets, TLC

(***************************************************************************)
(* Bounds of the model                                                     *)
(***************************************************************************)
MaxTime == 51000
MaxSessionTime == 130000
MaxBackoffTime == 240000
MaxReports == 6
MaxAttempts == 7
MaxOutageTime == 340000
MaxLedgerCalls == 257
MaxOwnershipTime == 150000

(***************************************************************************)
(* config.h                                                                *)
(***************************************************************************)
WIFI_CONNECT_TIMEOUT == 30000
HEARTBEAT_INTERVAL == 30000
REGISTRATION_RETRY_INTERVAL == 5000
STATUS_UPDATE_INTERVAL == 60000
MAX_WIFI_RETRY_ATTEMPTS == 3
INITIAL_RETRY_DELAY == 1000
MAX_RETRY_DELAY == 60000
BACKOFF_MULTIPLIER == 2
CAPTIVE_PORTAL_TIMEOUT == 300000
MAX_ERROR_RETRIES == 3
ERROR_RECOVERY_DELAY == 2000
CRITICAL_ERROR_THRESHOLD == 5

\* main.cpp and WSClient.cpp local constants
WIFI_CHECK_INTERVAL == 10000
MAX_RETRY_INTERVAL == 30000
RETRY_RESET_INTERVAL == 300000

\* enum DeviceState
STATE_INIT == 0
STATE_WIFI_SETUP == 1
STATE_WIFI_CONNECTING == 2
STATE_DEVICE_REGISTRATION == 3
STATE_WAITING_FOR_CLAIM == 4
STATE_OPERATIONAL == 5
STATE_ERROR == 6

\* enum class ErrorCode
ErrorCode ==
    {"NONE", "WIFI_CONNECTION_FAILED", "DEVICE_REGISTRATION_FAILED",
     "WEBSOCKET_CONNECTION_FAILED", "MEMORY_ALLOCATION_FAILED",
     "LIGHTING_SYSTEM_FAILED", "PREFERENCES_ACCESS_FAILED",
     "HTTP_REQUEST_FAILED", "JSON_PARSING_FAILED",
     "WATCHDOG_INITIALIZATION_FAILED", "CAPTIVE_PORTAL_FAILED",
     "UNKNOWN_ERROR"}

\* enum class RecoveryStrategy
RecoveryStrategy ==
    {"RETRY_OPERATION", "RESTART_COMPONENT", "SOFT_RESTART", "HARD_RESTART",
     "FACTORY_RESET"}

Min(a, b) == IF a < b THEN a ELSE b

(***************************************************************************)
(* class ErrorHandler                                                      *)
(***************************************************************************)
\* ErrorHandler::ErrorHandler
NewErrorHandler ==
    [lastError |-> "NONE",
     errorCounts |-> [k \in ErrorCode |-> 0],
     totalErrorCount |-> 0,
     lastErrorTime |-> 0]

\* reportError that counts the error without recording it as the last one
ReportErrorCountsOnly(eh, code, t) ==
    [eh EXCEPT !.totalErrorCount = (@ + 1) % 256,
               !.errorCounts[code] = (@ + 1) % 256]

\* ErrorHandler::reportError: the counters are uint8_t
ReportError(eh, code, t) ==
    [lastError |-> code,
     lastErrorTime |-> t,
     totalErrorCount |-> (eh.totalErrorCount + 1) % 256,
     errorCounts |-> [eh.errorCounts EXCEPT ![code] = (@ + 1) % 256]]

\* getRecoveryStrategy with every per-kind comparison written <= for <
GetRecoveryStrategyLateEscalation(eh, code) ==
    LET count == eh.errorCounts[code] IN
    CASE code = "WIFI_CONNECTION_FAILED" ->
            IF count <= 3 THEN "RETRY_OPERATION" ELSE "RESTART_COMPONENT"
      [] code = "WEBSOCKET_CONNECTION_FAILED" ->
            IF count <= 5 THEN "RETRY_OPERATION" ELSE "RESTART_COMPONENT"
      [] code = "MEMORY_ALLOCATION_FAILED" -> "SOFT_RESTART"
      [] code = "DEVICE_REGISTRATION_FAILED" ->
            IF count <= 3 THEN "RETRY_OPERATION" ELSE "SOFT_RESTART"
      [] code = "LIGHTING_SYSTEM_FAILED" -> "RESTART_COMPONENT"
      [] OTHER ->
            IF eh.totalErrorCount > CRITICAL_ERROR_THRESHOLD
            THEN "HARD_RESTART"
            ELSE IF count <= MAX_ERROR_RETRIES
                 THEN "RETRY_OPERATION" ELSE "RESTART_COMPONENT"

\* getRecoveryStrategy with the registration case escalating at the
\* session-transport threshold instead of its own
GetRecoveryStrategyRegistrationAtFive(eh, code) ==
    LET count == eh.errorCounts[code] IN
    CASE code = "WIFI_CONNECTION_FAILED" ->
            IF count < 3 THEN "RETRY_OPERATION" ELSE "RESTART_COMPONENT"
      [] code = "WEBSOCKET_CONNECTION_FAILED" ->
            IF count < 5 THEN "RETRY_OPERATION" ELSE "RESTART_COMPONENT"
      [] code = "MEMORY_ALLOCATION_FAILED" -> "SOFT_RESTART"
      [] code = "DEVICE_REGISTRATION_FAILED" ->
            IF count < 5 THEN "RETRY_OPERATION" ELSE "SOFT_RESTART"
      [] code = "LIGHTING_SYSTEM_FAILED" -> "RESTART_COMPONENT"
      [] OTHER ->
            IF eh.totalErrorCount > CRITICAL_ERROR_THRESHOLD
            THEN "HARD_RESTART"
            ELSE IF count < MAX_ERROR_RETRIES
                 THEN "RETRY_OPERATION" ELSE "RESTART_COMPONENT"

\* getRecoveryStrategy with allocation failure retried like the kinds
\* without a case of their own
GetRecoveryStrategyMemoryRetried(eh, code) ==
    LET count == eh.errorCounts[code] IN
    CASE code = "WIFI_CONNECTION_FAILED" ->
            IF count < 3 THEN "RETRY_OPERATION" ELSE "RESTART_COMPONENT"
      [] code = "WEBSOCKET_CONNECTION_FAILED" ->
            IF count < 5 THEN "RETRY_OPERATION" ELSE "RESTART_COMPONENT"
      [] code = "DEVICE_REGISTRATION_FAILED" ->
            IF count < 3 THEN "RETRY_OPERATION" ELSE "SOFT_RESTART"
      [] code = "LIGHTING_SYSTEM_FAILED" -> "RESTART_COMPONENT"
      [] OTHER ->
            IF eh.totalErrorCount > CRITICAL_ERROR_THRESHOLD
            THEN "HARD_RESTART"
            ELSE IF count < MAX_ERROR_RETRIES
                 THEN "RETRY_OPERATION" ELSE "RESTART_COMPONENT"

\* ErrorHandler::getRecoveryStrategy
GetRecoveryStrategy(eh, code) ==
    LET count == eh.errorCounts[code] IN
    CASE code = "WIFI_CONNECTION_FAILED" ->
            IF count < 3 THEN "RETRY_OPERATION" ELSE "RESTART_COMPONENT"
      [] code = "WEBSOCKET_CONNECTION_FAILED" ->
            IF count < 5 THEN "RETRY_OPERATION" ELSE "RESTART_COMPONENT"
      [] code = "MEMORY_ALLOCATION_FAILED" -> "SOFT_RESTART"
      [] code = "DEVICE_REGISTRATION_FAILED" ->
            IF count < 3 THEN "RETRY_OPERATION" ELSE "SOFT_RESTART"
      [] code = "LIGHTING_SYSTEM_FAILED" -> "RESTART_COMPONENT"
      [] OTHER ->
            IF eh.totalErrorCount > CRITICAL_ERROR_THRESHOLD
            THEN "HARD_RESTART"
            ELSE IF count < MAX_ERROR_RETRIES
                 THEN "RETRY_OPERATION" ELSE "RESTART_COMPONENT"

\* shouldPerformRecovery waiting for the retry-reset interval of the session
\* instead of the recovery delay
ShouldPerformRecoverySlow(eh, t) ==
    t - eh.lastErrorTime > RETRY_RESET_INTERVAL

\* shouldPerformRecovery without a cooldown
ShouldPerformRecoveryAtOnce(eh, t) == TRUE

\* ErrorHandler::shouldPerformRecovery
ShouldPerformRecovery(eh, t) == t - eh.lastErrorTime > ERROR_RECOVERY_DELAY

\* ErrorHandler::clearError
ClearError(eh) == [eh EXCEPT !.lastError = "NONE"]

(***************************************************************************)
(* class ExponentialBackoff                                                *)
(***************************************************************************)
\* ExponentialBackoff::ExponentialBackoff
NewBackoff(initial, maximum, mult) ==
    [initialDelay |-> initial, maxDelay |-> maximum, multiplier |-> mult,
     currentDelay |-> initial, lastAttemptTime |-> 0, attemptCount |-> 0]

\* ExponentialBackoff::shouldRetry
ShouldRetry(b, t) == t - b.lastAttemptTime >= b.currentDelay

\* recordAttempt without the min() against maxDelay
RecordAttemptUncapped(b, t) ==
    [b EXCEPT !.lastAttemptTime = t,
              !.attemptCount = @ + 1,
              !.currentDelay = b.currentDelay * b.multiplier]

\* recordAttempt with a delay that grows by the initial delay
RecordAttemptLinear(b, t) ==
    [b EXCEPT !.lastAttemptTime = t,
              !.attemptCount = @ + 1,
              !.currentDelay = Min(b.currentDelay + b.initialDelay,
                                   b.maxDelay)]

\* ExponentialBackoff::recordAttempt
RecordAttempt(b, t) ==
    [b EXCEPT !.lastAttemptTime = t,
              !.attemptCount = @ + 1,
              !.currentDelay = Min(b.currentDelay * b.multiplier, b.maxDelay)]

\* reset that forgets the attempt counter
ResetKeepsAttemptCount(b) ==
    [b EXCEPT !.currentDelay = b.initialDelay,
              !.lastAttemptTime = 0]

\* ExponentialBackoff::reset
Reset(b) ==
    [b EXCEPT !.currentDelay = b.initialDelay,
              !.lastAttemptTime = 0,
              !.attemptCount = 0]

\* the three global instances of main.cpp
WifiRetryBackoff0 == NewBackoff(2000, 30000, 2)
WsRetryBackoff0 == NewBackoff(1000, 60000, 2)
RegistrationBackoff0 == NewBackoff(3000, 45000, 2)

(***************************************************************************)
(* class WSClient, together with what its code changes outside itself.     *)
(* The operators work on a record x:                                       *)
(*   x.c  the WSClient object wsClient points to (alive: the pointer is    *)
(*        not null; available: the library client's own connection flag,   *)
(*        client.available())                                              *)
(*   x.d  DeviceManager::deviceInfo                                        *)
(*   x.p  the "palpalette" preferences namespace in flash                  *)
(*   x.o  what an observer of the session has seen since the last          *)
(*        connection open: the number of liveness-timeout teardowns, the   *)
(*        reason of the last close, the retry counter as it was when the   *)
(*        connection opened, the time it opened, how the connection before *)
(*        it on the same object closed, the registerDevice and             *)
(*        deviceStatus messages sent on it, in order, and the number of    *)
(*        client.connect() calls that failed since it closed; and, since   *)
(*        the start of the program, the number of WSClient objects on the  *)
(*        heap and whether a message or ping ever left while isConnected   *)
(*        was false                                                        *)
(*   x.h  heartbeatCount, the static counter of sendHeartbeat              *)
(***************************************************************************)
\* WSClient::WSClient
NewWSClient(t) ==
    [alive |-> TRUE,
     isConnected |-> FALSE, lastHeartbeat |-> 0, lastPongReceived |-> 0,
     lastConnectionAttempt |-> 0, retryAttempts |-> 0, lastRetryReset |-> t,
     available |-> FALSE]

\* WSClient *wsClient = nullptr: no object (alive is FALSE)
NullWSClient == [NewWSClient(0) EXCEPT !.alive = FALSE]

NewObserved ==
    [teardowns |-> 0, closedBy |-> "none", retriesBeforeOpen |-> 0,
     openedAt |-> 0, reopenedAfter |-> "none", sent |-> <<>>,
     connects |-> 0, objects |-> 0, offline |-> FALSE]

\* wsClient = new WSClient(...): one more WSClient object on the heap
\* (x.o.objects counts them)
NewSession(x, t) ==
    [x EXCEPT !.c = NewWSClient(t), !.o.objects = @ + 1]

\* WSClient::onEventsCallback, case ConnectionOpened
OnConnectionOpened(x, t) ==
    [x EXCEPT !.c.isConnected = TRUE,
              !.c.lastConnectionAttempt = t,
              !.c.lastPongReceived = t,
              !.c.retryAttempts = 0,
              !.c.lastRetryReset = t,
              !.o = [NewObserved EXCEPT
                        !.retriesBeforeOpen = x.c.retryAttempts,
                        !.openedAt = t,
                        !.reopenedAfter = x.o.closedBy,
                        !.objects = x.o.objects,
                        !.offline = x.o.offline]]

\* a ConnectionClosed handler that leaves the online flag alone
OnConnectionClosedKeepsOnline(x, t) ==
    [x EXCEPT !.c.isConnected = FALSE,
              !.c.lastConnectionAttempt = t]

\* a ConnectionClosed handler that reconnects at once
OnConnectionClosedReconnects(x, t) ==
    LET x1 == [x EXCEPT !.c.isConnected = FALSE,
                        !.d.isOnline = FALSE,
                        !.c.lastConnectionAttempt = t]
    IN [x1 EXCEPT !.c.isConnected = TRUE, !.c.available = TRUE,
                  !.c.lastPongReceived = t, !.c.lastHeartbeat = t,
                  !.o.connects = @ + 1]

\* WSClient::onEventsCallback, case ConnectionClosed
OnConnectionClosed(x, t) ==
    [x EXCEPT !.c.isConnected = FALSE,
              !.d.isOnline = FALSE,
              !.c.lastConnectionAttempt = t]

\* WSClient::onEventsCallback, case GotPong
OnGotPong(x, t) == [x EXCEPT !.c.lastPongReceived = t]

\* isClientConnected that answers true whatever the session's state
IsClientConnectedAlways(x) == TRUE

\* WSClient::isClientConnected: the value returned
IsClientConnected(x) == x.c.isConnected /\ x.c.available

\* WSClient::isClientConnected: the state it leaves
AfterIsClientConnected(x) ==
    IF x.c.isConnected /\ ~x.c.available
    THEN [x EXCEPT !.c.isConnected = FALSE, !.d.isOnline = FALSE,
                   !.o.closedBy = "unavailable"]
    ELSE x

\* client.close() of the websockets library: closes an open connection and
\* delivers ConnectionClosed to the events callback before it returns
ClientClose(x, t) ==
    IF x.c.available
    THEN OnConnectionClosed([x EXCEPT !.c.available = FALSE], t)
    ELSE x

\* disconnect that leaves isConnected to the close callback
DisconnectLeavesFlag(x, t) ==
    IF x.c.isConnected
    THEN [ClientClose(x, t) EXCEPT !.d.isOnline = FALSE]
    ELSE x

\* WSClient::disconnect
Disconnect(x, t) ==
    IF x.c.isConnected
    THEN [ClientClose(x, t) EXCEPT !.c.isConnected = FALSE,
                                   !.d.isOnline = FALSE]
    ELSE x

\* client.send(message); x.o.offline records a message handed to the
\* library while isConnected is false
Send(x, event) ==
    [x EXCEPT !.o.sent = IF event \in {"registerDevice", "deviceStatus"}
                         THEN Append(@, event) ELSE @,
              !.o.offline = @ \/ ~x.c.isConnected]

\* client.ping(); x.o.offline records a ping made while isConnected is false
ClientPing(x) == [x EXCEPT !.o.offline = @ \/ ~x.c.isConnected]

\* WSClient::sendMessage
SendMessage(x, event) ==
    IF IsClientConnected(x) THEN Send(x, event)
    ELSE AfterIsClientConnected(x)

\* WSClient::sendDeviceStatus
SendDeviceStatus(x) ==
    IF ~IsClientConnected(x) THEN AfterIsClientConnected(x)
    ELSE Send(x, "deviceStatus")

\* sendDeviceStatus(); sendLightingSystemStatus(): each asks
\* isClientConnected before it sends
SendStatus(x) == AfterIsClientConnected(SendDeviceStatus(x))

\* registerDevice that sends the status snapshot ahead of the announcement
RegisterDeviceAfterStatus(x) ==
    IF ~IsClientConnected(x) THEN AfterIsClientConnected(x)
    ELSE Send(SendStatus(x), "registerDevice")

\* WSClient::registerDevice
RegisterDevice(x) ==
    IF ~IsClientConnected(x) THEN AfterIsClientConnected(x)
    ELSE SendStatus(Send(x, "registerDevice"))

\* WSClient::connect; ok is the result of client.connect(serverUrl), which
\* delivers ConnectionOpened to the events callback before it returns true
Connect(x, ok, t) ==
    IF x.c.isConnected THEN x
    ELSE LET x1 == [x EXCEPT !.c.lastConnectionAttempt = t,
                             !.o.connects = @ + 1] IN
         IF ok
         THEN LET x2 == OnConnectionOpened([x1 EXCEPT !.c.available = TRUE], t)
                  x3 == [x2 EXCEPT !.c.isConnected = TRUE,
                                   !.c.lastHeartbeat = t]
              IN RegisterDevice(x3)
         ELSE [x1 EXCEPT !.c.isConnected = FALSE]

\* connect() reporting success whatever client.connect() returned
ConnectResultAlwaysTrue(x, ok) == TRUE

\* WSClient::connect: the value returned
ConnectResult(x, ok) == x.c.isConnected \/ ok

\* WSClient::shouldSendHeartbeat
ShouldSendHeartbeat(x, t) == t - x.c.lastHeartbeat > HEARTBEAT_INTERVAL

\* sendHeartbeat without the isClientConnected() check at its start
SendHeartbeatUnchecked(x, t) ==
    LET x1 == [ClientPing(x) EXCEPT !.c.lastHeartbeat = t,
                                    !.d.isOnline = TRUE] IN
    IF x.h + 1 >= 10 THEN SendStatus([x1 EXCEPT !.h = 0])
    ELSE [x1 EXCEPT !.h = x.h + 1]

\* WSClient::sendHeartbeat: client.ping(), and every tenth time the status
\* messages
SendHeartbeat(x, t) ==
    IF ~IsClientConnected(x) THEN AfterIsClientConnected(x)
    ELSE LET x1 == [ClientPing(x) EXCEPT !.c.lastHeartbeat = t,
                                         !.d.isOnline = TRUE] IN
         IF x.h + 1 >= 10 THEN SendStatus([x1 EXCEPT !.h = 0])
         ELSE [x1 EXCEPT !.h = x.h + 1]

\* 1UL << n
Shl1(n) == IF n = 0 THEN 1 ELSE 2 ^ n

\* WSClient::shouldRetryConnection: retryInterval for a retry counter
RetryInterval(retryAttempts) ==
    Min(REGISTRATION_RETRY_INTERVAL * Shl1(retryAttempts), MAX_RETRY_INTERVAL)

\* the idle reset measured from the last connection attempt
AfterRetryResetSinceAttempt(x, t) ==
    IF t - x.c.lastConnectionAttempt > RETRY_RESET_INTERVAL
    THEN [x EXCEPT !.c.retryAttempts = 0, !.c.lastRetryReset = t]
    ELSE x

\* WSClient::shouldRetryConnection: the idle reset at its start
AfterRetryReset(x, t) ==
    IF t - x.c.lastRetryReset > RETRY_RESET_INTERVAL
    THEN [x EXCEPT !.c.retryAttempts = 0, !.c.lastRetryReset = t]
    ELSE x

\* WSClient::shouldRetryConnection: the value returned
ShouldRetryConnection(x, t) ==
    LET x1 == AfterRetryReset(x, t) IN
    t - x1.c.lastConnectionAttempt > RetryInterval(x1.c.retryAttempts)

\* shouldRetryConnection that counts every retry, without the cap
AfterShouldRetryConnectionUncapped(x, t) ==
    LET x1 == AfterRetryReset(x, t) IN
    IF ShouldRetryConnection(x, t)
    THEN [x1 EXCEPT !.c.retryAttempts = @ + 1]
    ELSE x1

\* WSClient::shouldRetryConnection: the state it leaves
AfterShouldRetryConnection(x, t) ==
    LET x1 == AfterRetryReset(x, t) IN
    IF ShouldRetryConnection(x, t)
    THEN [x1 EXCEPT !.c.retryAttempts = Min(@ + 1, 5)]
    ELSE x1

\* DeviceManager::resetDevice: preferences.clear(), generateDeviceInfo(),
\* saveDeviceInfo()
ResetDevice(x) ==
    [x EXCEPT !.d = [isProvisioned |-> FALSE, isOnline |-> FALSE,
                     hasDeviceId |-> TRUE],
              !.p = [ssid |-> FALSE, deviceId |-> TRUE, provisioned |-> FALSE]]

\* DeviceManager::setProvisioned
SetProvisioned(x, v) ==
    [x EXCEPT !.d.isProvisioned = v, !.p.provisioned = v]

\* WSClient::handleFactoryReset: acknowledge, resetDevice(), then
\* lightManager->resetConfiguration(), which touches only the lighting
\* namespace; no restart is requested
HandleFactoryReset(x) ==
    ResetDevice(IF IsClientConnected(x)
                THEN SendMessage(x, "factoryResetAcknowledged")
                ELSE AfterIsClientConnected(x))

\* the inbound events one client.poll() can deliver
KnownEvents ==
    {"colorPalette", "deviceRegistered", "deviceClaimed", "setupComplete",
     "lightingSystemConfig", "testLightingSystem", "factoryReset",
     "deviceStatusAck"}
IgnoredMessages == {"unknownEvent", "noEventField", "badJson"}
PollEvents ==
    {"none", "pong", "closed", "drop"} \cup KnownEvents \cup IgnoredMessages

\* onMessageCallback that drops the session on a message it cannot decode
OnMessageCallbackStrict(x, ev) ==
    CASE ev = "deviceClaimed" -> SetProvisioned(x, TRUE)
      [] ev = "setupComplete" -> SetProvisioned(x, TRUE)
      [] ev = "factoryReset" -> HandleFactoryReset(x)
      [] ev = "badJson" -> [x EXCEPT !.c.isConnected = FALSE,
                                     !.d.isOnline = FALSE]
      [] OTHER -> x

\* WSClient::onMessageCallback
OnMessageCallback(x, ev) ==
    CASE ev = "deviceClaimed" -> SetProvisioned(x, TRUE)
      [] ev = "setupComplete" -> SetProvisioned(x, TRUE)
      [] ev = "factoryReset" -> HandleFactoryReset(x)
      [] OTHER -> x

\* client.poll(): delivers what arrived to the callbacks; "drop" is a
\* connection lost without a close frame (client.available() turns false)
Poll(x, ev, t) ==
    CASE ev = "none" -> x
      [] ev = "pong" -> OnGotPong(x, t)
      [] ev = "closed" ->
            [OnConnectionClosed([x EXCEPT !.c.available = FALSE], t)
                EXCEPT !.o.closedBy = "remote"]
      [] ev = "drop" -> [x EXCEPT !.c.available = FALSE]
      [] OTHER -> OnMessageCallback(x, ev)

\* the liveness check with a limit of two heartbeat intervals
LivenessTimedOutAfterTwo(x, t) ==
    x.c.lastPongReceived > 0
    /\ t - x.c.lastPongReceived > HEARTBEAT_INTERVAL * 2

\* WSClient::loop: the liveness check at the end of the connected branch
LivenessTimedOut(x, t) ==
    x.c.lastPongReceived > 0
    /\ t - x.c.lastPongReceived > HEARTBEAT_INTERVAL * 3

\* WSClient::loop
WsLoop(x, ev, ok, t) ==
    IF x.c.isConnected
    THEN LET x1 == Poll(x, ev, t)
             x2 == IF ShouldSendHeartbeat(x1, t) THEN SendHeartbeat(x1, t)
                   ELSE x1
         IN IF LivenessTimedOut(x2, t)
            THEN LET x3 == Disconnect(x2, t) IN
                 IF x2.c.isConnected
                 THEN [x3 EXCEPT !.o.teardowns = @ + 1,
                                 !.o.closedBy = "timeout"]
                 ELSE x3
            ELSE x2
    ELSE IF ShouldRetryConnection(x, t)
         THEN Connect(AfterShouldRetryConnection(x, t), ok, t)
         ELSE AfterShouldRetryConnection(x, t)


\* wsClient = nullptr without delete: the object stays on the heap
DeleteWSClientLeaks(x, t) ==
    [x EXCEPT !.c = NullWSClient,
              !.o = [NewObserved EXCEPT !.objects = x.o.objects,
                                        !.offline = x.o.offline]]

\* WSClient::~WSClient, then wsClient = nullptr
DeleteWSClient(x, t) ==
    [(IF x.c.isConnected THEN Disconnect(x, t) ELSE x)
        EXCEPT !.c = NullWSClient,
               !.o = [NewObserved EXCEPT !.objects = x.o.objects - 1,
                                         !.offline = x.o.offline]]

\* clearWiFiCredentials that leaves the device_id key in place
ClearWiFiCredentialsKeepsIdentity(x) ==
    [x EXCEPT !.p.ssid = FALSE, !.p.provisioned = FALSE]

\* WiFiManager::clearWiFiCredentials: the keys it removes from flash
ClearWiFiCredentials(x) ==
    [x EXCEPT !.p = [ssid |-> FALSE, deviceId |-> FALSE, provisioned |-> FALSE]]

\* DeviceManager::saveDeviceInfo
SaveDeviceInfo(x) ==
    [x EXCEPT !.p.deviceId = x.d.hasDeviceId,
              !.p.provisioned = x.d.isProvisioned]

\* DeviceManager::registerMinimalWithServer on HTTP 200/201; resp is what the
\* response body says: "claimed", "unclaimed", or "unparsed" (not JSON)
RegisterMinimalOk(x, resp) ==
    SaveDeviceInfo(
        IF resp = "unparsed" THEN x
        ELSE [x EXCEPT !.d.hasDeviceId = TRUE,
                       !.d.isProvisioned = (resp = "claimed")])

RegistrationResponses == {"claimed", "unclaimed", "unparsed"}

\* a failed registration that marks the device unclaimed and saves that
RegisterMinimalFailedUnclaims(x) == SaveDeviceInfo([x EXCEPT !.d.isProvisioned = FALSE])

\* DeviceManager::registerMinimalWithServer with an empty server URL or an
\* HTTP response other than 200/201: it returns false
RegisterMinimalFailed(x) == x

(***************************************************************************)
(* State of the program                                                    *)
(***************************************************************************)
VARIABLES
    now,                    \* millis()
    pc,                     \* where the program is: setup(), or a step of loop()
    currentState,
    stateChangeTime,
    wifiRetryBackoff,
    connectStartTime,       \* static of handleWiFiConnecting
    attemptInProgress,      \* static of handleWiFiConnecting
    registrationAttempted,  \* static of handleDeviceRegistration
    registrationSuccessful, \* static of handleDeviceRegistration
    lastWiFiCheck,
    errorHandler,           \* ErrorHandler::instance
    wsClient,
    deviceInfo,             \* DeviceManager::deviceInfo
    lastStatusUpdate,       \* DeviceManager::lastStatusUpdate
    prefs,                  \* flash, survives a restart
    wifi,                   \* WiFiManager and the radio
    observed,               \* see x.o
    prevState,              \* the state left by the last setState()
    joinLog,                \* join attempts of the current stay in WIFI_CONNECTING
    factoryResetHandled,    \* a factoryReset event was handled since boot
    heartbeatCount,         \* static of WSClient::sendHeartbeat
    restartCause            \* the restart setup() is about to follow: what
                            \* made it, and the flash and the last error as
                            \* they were before it

vars ==
    <<now, pc, currentState, stateChangeTime, wifiRetryBackoff,
      connectStartTime, attemptInProgress, registrationAttempted,
      registrationSuccessful, lastWiFiCheck, errorHandler, wsClient,
      deviceInfo, lastStatusUpdate, prefs, wifi, observed, prevState, joinLog,
      factoryResetHandled, heartbeatCount, restartCause>>

\* the record the WSClient operators work on
X ==
    [c |-> wsClient, d |-> deviceInfo, p |-> prefs, o |-> observed,
     h |-> heartbeatCount]

PutX(x) ==
    /\ wsClient' = x.c
    /\ deviceInfo' = x.d
    /\ prefs' = x.p
    /\ observed' = x.o
    /\ heartbeatCount' = x.h

\* time steps of a tick, and how long connectToWiFi() takes
TickDeltas == {0, 10000}
JoinOkDelays == {10000}
JoinTimeoutDelays == {WIFI_CONNECT_TIMEOUT, WIFI_CONNECT_TIMEOUT + 10000}

\* the "palpalette" namespace with none of its keys
EmptyFlash == [ssid |-> FALSE, deviceId |-> FALSE, provisioned |-> FALSE]

NoRestart == [by |-> "none", flash |-> EmptyFlash, error |-> "NONE"]

\* setState
SetState(newState, t) ==
    IF currentState # newState
    THEN /\ currentState' = newState
         /\ stateChangeTime' = t
         /\ prevState' = currentState
    ELSE UNCHANGED <<currentState, stateChangeTime, prevState>>

\* RAM after power-on or ESP.restart(): the globals of main.cpp as
\* initialised, before setup() runs; flash is p
Boot(p, cause) ==
    /\ now' = 0
    /\ pc' = "setup"
    /\ currentState' = STATE_INIT
    /\ stateChangeTime' = 0
    /\ wifiRetryBackoff' = WifiRetryBackoff0
    /\ connectStartTime' = 0
    /\ attemptInProgress' = FALSE
    /\ registrationAttempted' = FALSE
    /\ registrationSuccessful' = FALSE
    /\ lastWiFiCheck' = 0
    /\ errorHandler' = NewErrorHandler
    /\ wsClient' = NullWSClient
    /\ deviceInfo' = [isProvisioned |-> FALSE, isOnline |-> FALSE,
                      hasDeviceId |-> FALSE]
    /\ lastStatusUpdate' = 0
    /\ prefs' = p
    /\ wifi' = [savedSSID |-> FALSE, connected |-> FALSE, isAPMode |-> FALSE,
                apStartTime |-> 0]
    /\ observed' = NewObserved
    /\ prevState' = STATE_INIT
    /\ joinLog' = <<>>
    /\ factoryResetHandled' = FALSE
    /\ heartbeatCount' = 0
    /\ restartCause' = [by |-> cause, flash |-> prefs,
                         error |-> errorHandler.lastError]

\* the state at power-on with empty flash; where is the value of pc
PowerOn(where) ==
    /\ now = 0
    /\ pc = where
    /\ currentState = STATE_INIT
    /\ stateChangeTime = 0
    /\ wifiRetryBackoff = WifiRetryBackoff0
    /\ connectStartTime = 0
    /\ attemptInProgress = FALSE
    /\ registrationAttempted = FALSE
    /\ registrationSuccessful = FALSE
    /\ lastWiFiCheck = 0
    /\ errorHandler = NewErrorHandler
    /\ wsClient = NullWSClient
    /\ deviceInfo = [isProvisioned |-> FALSE, isOnline |-> FALSE,
                     hasDeviceId |-> FALSE]
    /\ lastStatusUpdate = 0
    /\ prefs = EmptyFlash
    /\ wifi = [savedSSID |-> FALSE, connected |-> FALSE, isAPMode |-> FALSE,
               apStartTime |-> 0]
    /\ observed = NewObserved
    /\ prevState = STATE_INIT
    /\ joinLog = <<>>
    /\ factoryResetHandled = FALSE
    /\ heartbeatCount = 0
    /\ restartCause = [NoRestart EXCEPT !.by = "powerOn"]

Init == PowerOn("setup")

(***************************************************************************)
(* setup() and the steps of loop()                                         *)
(***************************************************************************)
\* setup(): delay(1000), initializeWatchdog() (wdOk), wifiManager.begin(),
\* deviceManager.begin(), setState(STATE_WIFI_SETUP)
Setup(wdOk) ==
    /\ pc = "setup"
    /\ now' = 1000
    /\ pc' = "tick"
    /\ errorHandler' =
          IF wdOk THEN errorHandler
          ELSE ReportError(errorHandler, "WATCHDOG_INITIALIZATION_FAILED", now')
    /\ wifi' = [wifi EXCEPT !.savedSSID = prefs.ssid]
    /\ IF prefs.deviceId
       THEN /\ deviceInfo' = [isProvisioned |-> prefs.provisioned,
                              isOnline |-> FALSE, hasDeviceId |-> TRUE]
            /\ prefs' = prefs
       ELSE /\ deviceInfo' = [isProvisioned |-> FALSE, isOnline |-> FALSE,
                              hasDeviceId |-> FALSE]
            /\ prefs' = [prefs EXCEPT !.deviceId = FALSE, !.provisioned = FALSE]
    /\ SetState(STATE_WIFI_SETUP, now')
    /\ UNCHANGED <<wifiRetryBackoff, connectStartTime, attemptInProgress,
                   registrationAttempted, registrationSuccessful,
                   lastWiFiCheck, wsClient, lastStatusUpdate, observed,
                   heartbeatCount, joinLog, factoryResetHandled>>
    /\ restartCause' = NoRestart

\* loop(), up to wifiManager.loop(): d is the time since the last tick, link
\* whether the radio still holds the network it had joined
LoopStart(d, link) ==
    /\ pc = "tick"
    /\ link => wifi.connected
    /\ IF wifi.isAPMode /\ (now + d) - wifi.apStartTime > CAPTIVE_PORTAL_TIMEOUT
       THEN Boot(prefs, "portalTimeout")
       ELSE /\ now' = now + d
            /\ pc' = "ws"
            /\ wifi' = [wifi EXCEPT !.connected = link]
            /\ UNCHANGED <<currentState, stateChangeTime, wifiRetryBackoff,
                           connectStartTime, attemptInProgress,
                           registrationAttempted, registrationSuccessful,
                           lastWiFiCheck, errorHandler, wsClient, deviceInfo,
                           lastStatusUpdate, prefs, observed, heartbeatCount, prevState,
                           joinLog, factoryResetHandled, restartCause>>

\* a tick of the lifecycle, within the time covered
BeginTick(d, link) ==
    /\ d = 0 \/ now + d <= MaxTime
    /\ LoopStart(d, link)

\* WiFiManager::handleSave with an SSID: the portal stores the credentials
\* and restarts the device
PortalSave ==
    /\ pc = "tick"
    /\ wifi.isAPMode
    /\ Boot([prefs EXCEPT !.ssid = TRUE], "portalSave")

\* WiFiManager::handleReset: the portal's reset page clears the stored
\* credentials and restarts the device
PortalReset ==
    /\ pc = "tick"
    /\ wifi.isAPMode
    /\ Boot(ClearWiFiCredentials(X).p, "portalReset")

\* loop(): if (wsClient) wsClient->loop(); ev is what poll() delivers, ok the
\* result of client.connect()
LoopWsClient(ev, ok) ==
    /\ pc = "ws"
    /\ pc' = "state"
    /\ ok => wifi.connected
    /\ ev \notin {"none", "drop", "closed"} => wifi.connected
    /\ IF wsClient.alive
       THEN /\ PutX(WsLoop(X, ev, ok, now))
            /\ factoryResetHandled' =
                  (factoryResetHandled
                      \/ (wsClient.isConnected /\ ev = "factoryReset"))
            /\ restartCause' = restartCause
       ELSE /\ ev = "none" /\ ~ok
            /\ UNCHANGED <<wsClient, deviceInfo, prefs, observed, heartbeatCount,
                           factoryResetHandled, restartCause>>
    /\ UNCHANGED <<now, currentState, stateChangeTime, wifiRetryBackoff,
                   connectStartTime, attemptInProgress, registrationAttempted,
                   registrationSuccessful, lastWiFiCheck, errorHandler,
                   lastStatusUpdate, wifi, prevState, joinLog>>

\* handleWiFiSetup; WiFiManager::startAPMode with WiFi.softAP() succeeding
HandleWiFiSetup ==
    /\ pc = "state"
    /\ currentState = STATE_WIFI_SETUP
    /\ pc' = "periodic"
    /\ IF wifi.savedSSID
       THEN /\ SetState(STATE_WIFI_CONNECTING, now)
            /\ wifi' = wifi
       ELSE /\ wifi' = IF wifi.isAPMode THEN wifi
                       ELSE [wifi EXCEPT !.isAPMode = TRUE,
                                         !.apStartTime = now]
            /\ UNCHANGED <<currentState, stateChangeTime, prevState>>
    /\ UNCHANGED <<now, wifiRetryBackoff, connectStartTime, attemptInProgress,
                   registrationAttempted, registrationSuccessful,
                   lastWiFiCheck, errorHandler, wsClient, deviceInfo,
                   lastStatusUpdate, prefs, observed, heartbeatCount, joinLog,
                   factoryResetHandled, restartCause>>

\* the join log of the current stay in STATE_WIFI_CONNECTING
OpenJoinLog ==
    IF joinLog # <<>> /\ joinLog[Len(joinLog)].last THEN <<>> ELSE joinLog

\* handleWiFiConnecting that, once joined, goes on by the provisioning flag
\* without registering
HandleWiFiConnectingSkipsRegistration(ok, d) ==
    /\ pc = "state"
    /\ currentState = STATE_WIFI_CONNECTING
    /\ pc' = "periodic"
    /\ d \in (IF ~wifi.savedSSID THEN {0}
              ELSE IF ok THEN JoinOkDelays ELSE JoinTimeoutDelays)
    /\ LET b1 == IF attemptInProgress THEN wifiRetryBackoff
                 ELSE RecordAttempt(wifiRetryBackoff, now)
           cst == IF attemptInProgress THEN connectStartTime ELSE now
           t1 == now + d
           joined == ok /\ wifi.savedSSID
           retry == ShouldRetry(b1, t1)
           tooMany == retry /\ b1.attemptCount >= MAX_WIFI_RETRY_ATTEMPTS
           timedOut == t1 - cst > WIFI_CONNECT_TIMEOUT
           failed == ~joined /\ (tooMany \/ timedOut)
       IN /\ now' = t1
          /\ connectStartTime' = cst
          /\ wifi' = [wifi EXCEPT !.connected = joined]
          /\ joinLog' = Append(OpenJoinLog,
                               [ok |-> joined, wait |-> b1.currentDelay,
                                last |-> joined \/ failed])
          /\ IF joined
             THEN /\ wifiRetryBackoff' = Reset(b1)
                  /\ attemptInProgress' = FALSE
                  /\ errorHandler' = errorHandler
                  /\ SetState(IF deviceInfo.isProvisioned THEN STATE_OPERATIONAL
                              ELSE STATE_WAITING_FOR_CLAIM, t1)
             ELSE IF failed
             THEN /\ errorHandler' =
                        ReportError(errorHandler, "WIFI_CONNECTION_FAILED", t1)
                  /\ wifiRetryBackoff' = Reset(b1)
                  /\ attemptInProgress' = FALSE
                  /\ SetState(STATE_ERROR, t1)
             ELSE /\ wifiRetryBackoff' = b1
                  /\ attemptInProgress' = ~retry
                  /\ errorHandler' = errorHandler
                  /\ UNCHANGED <<currentState, stateChangeTime, prevState>>
    /\ UNCHANGED <<registrationAttempted, registrationSuccessful,
                   lastWiFiCheck, wsClient, deviceInfo, lastStatusUpdate,
                   prefs, observed, heartbeatCount, factoryResetHandled, restartCause>>

\* the overall-timeout check with >= for >
JoinTimedOutAtLimit(t, cst) == t - cst >= WIFI_CONNECT_TIMEOUT

\* handleWiFiConnecting: millis() - connectStartTime > WIFI_CONNECT_TIMEOUT
JoinTimedOut(t, cst) == t - cst > WIFI_CONNECT_TIMEOUT

\* handleWiFiConnecting; ok is the result of WiFiManager::connectToWiFi(),
\* which blocks for d: less than WIFI_CONNECT_TIMEOUT when it joins, at least
\* that long when it does not
HandleWiFiConnecting(ok, d) ==
    /\ pc = "state"
    /\ currentState = STATE_WIFI_CONNECTING
    /\ pc' = "periodic"
    /\ d \in (IF ~wifi.savedSSID THEN {0}
              ELSE IF ok THEN JoinOkDelays ELSE JoinTimeoutDelays)
    /\ LET b1 == IF attemptInProgress THEN wifiRetryBackoff
                 ELSE RecordAttempt(wifiRetryBackoff, now)
           cst == IF attemptInProgress THEN connectStartTime ELSE now
           t1 == now + d
           joined == ok /\ wifi.savedSSID
           retry == ShouldRetry(b1, t1)
           tooMany == retry /\ b1.attemptCount >= MAX_WIFI_RETRY_ATTEMPTS
           timedOut == JoinTimedOut(t1, cst)
           failed == ~joined /\ (tooMany \/ timedOut)
       IN /\ now' = t1
          /\ connectStartTime' = cst
          /\ wifi' = [wifi EXCEPT !.connected = joined]
          /\ joinLog' = Append(OpenJoinLog,
                               [ok |-> joined, wait |-> b1.currentDelay,
                                last |-> joined \/ failed])
          /\ IF joined
             THEN /\ wifiRetryBackoff' = Reset(b1)
                  /\ attemptInProgress' = FALSE
                  /\ errorHandler' = errorHandler
                  /\ SetState(STATE_DEVICE_REGISTRATION, t1)
             ELSE IF failed
             THEN /\ errorHandler' =
                        ReportError(errorHandler, "WIFI_CONNECTION_FAILED", t1)
                  /\ wifiRetryBackoff' = Reset(b1)
                  /\ attemptInProgress' = FALSE
                  /\ SetState(STATE_ERROR, t1)
             ELSE /\ wifiRetryBackoff' = b1
                  /\ attemptInProgress' = ~retry
                  /\ errorHandler' = errorHandler
                  /\ UNCHANGED <<currentState, stateChangeTime, prevState>>
    /\ UNCHANGED <<registrationAttempted, registrationSuccessful,
                   lastWiFiCheck, wsClient, deviceInfo, lastStatusUpdate,
                   prefs, observed, heartbeatCount, factoryResetHandled, restartCause>>

\* handleDeviceRegistration; regOk: registerMinimalWithServer() got 200/201
\* with response resp; memOk: isMemoryHealthy() and new both succeeded;
\* wsOk: the result of client.connect()
HandleDeviceRegistration(regOk, resp, memOk, wsOk) ==
    /\ pc = "state"
    /\ currentState = STATE_DEVICE_REGISTRATION
    /\ pc' = "periodic"
    /\ regOk => wifi.connected
    /\ wsOk => wifi.connected
    /\ IF registrationSuccessful
       THEN UNCHANGED <<currentState, stateChangeTime, prevState,
                        errorHandler, wsClient, deviceInfo, prefs, observed, heartbeatCount,
                        registrationAttempted, registrationSuccessful>>
       ELSE IF registrationAttempted
       THEN /\ registrationAttempted' =
                  ~(now - stateChangeTime > REGISTRATION_RETRY_INTERVAL)
            /\ UNCHANGED <<currentState, stateChangeTime, prevState,
                           errorHandler, wsClient, deviceInfo, prefs,
                           observed, heartbeatCount, registrationSuccessful>>
       ELSE IF ~regOk
       THEN /\ errorHandler' =
                  ReportError(errorHandler, "DEVICE_REGISTRATION_FAILED", now)
            /\ SetState(STATE_ERROR, now)
            /\ registrationAttempted' = TRUE
            /\ PutX(RegisterMinimalFailed(X))
            /\ UNCHANGED registrationSuccessful
       ELSE LET x1 == RegisterMinimalOk(X, resp)
                x2 == IF x1.c.alive THEN DeleteWSClient(x1, now) ELSE x1
                x3 == NewSession(x2, now)
                x4 == Connect(x3, wsOk, now)
            IN IF ~memOk
               THEN /\ PutX(x2)
                    /\ errorHandler' =
                          ReportError(errorHandler, "MEMORY_ALLOCATION_FAILED",
                                      now)
                    /\ SetState(STATE_ERROR, now)
                    /\ UNCHANGED <<registrationAttempted,
                                   registrationSuccessful>>
               ELSE IF ConnectResult(x3, wsOk)
               THEN /\ PutX(x4)
                    /\ registrationSuccessful' = TRUE
                    /\ registrationAttempted' = TRUE
                    /\ errorHandler' = errorHandler
                    /\ SetState(IF x4.d.isProvisioned THEN STATE_OPERATIONAL
                                ELSE STATE_WAITING_FOR_CLAIM, now)
               ELSE /\ PutX(x4)
                    /\ errorHandler' =
                          ReportError(errorHandler,
                                      "WEBSOCKET_CONNECTION_FAILED", now)
                    /\ SetState(STATE_ERROR, now)
                    /\ registrationAttempted' = TRUE
                    /\ registrationSuccessful' = FALSE
    /\ UNCHANGED <<now, wifiRetryBackoff, connectStartTime, attemptInProgress,
                   lastWiFiCheck, lastStatusUpdate, wifi, joinLog,
                   factoryResetHandled, restartCause>>

\* handleWaitingForClaim that only shows the pairing information
HandleWaitingForClaimIgnoresFlag ==
    /\ pc = "state"
    /\ currentState = STATE_WAITING_FOR_CLAIM
    /\ pc' = "periodic"
    /\ UNCHANGED <<now, currentState, stateChangeTime, prevState,
                   wifiRetryBackoff, connectStartTime, attemptInProgress,
                   registrationAttempted, registrationSuccessful,
                   lastWiFiCheck, errorHandler, wsClient, deviceInfo,
                   lastStatusUpdate, prefs, wifi, observed, heartbeatCount,
                   joinLog, factoryResetHandled, restartCause>>

\* handleWaitingForClaim
HandleWaitingForClaim ==
    /\ pc = "state"
    /\ currentState = STATE_WAITING_FOR_CLAIM
    /\ pc' = "periodic"
    /\ IF deviceInfo.isProvisioned
       THEN SetState(STATE_OPERATIONAL, now)
       ELSE UNCHANGED <<currentState, stateChangeTime, prevState>>
    /\ UNCHANGED <<now, wifiRetryBackoff, connectStartTime, attemptInProgress,
                   registrationAttempted, registrationSuccessful,
                   lastWiFiCheck, errorHandler, wsClient, deviceInfo,
                   lastStatusUpdate, prefs, wifi, observed, heartbeatCount, joinLog,
                   factoryResetHandled, restartCause>>

\* handleOperational in a loop() that ends the tick without the periodic
\* tasks
HandleOperationalEndsTick ==
    /\ pc = "state"
    /\ currentState = STATE_OPERATIONAL
    /\ pc' = "tick"
    /\ IF ~deviceInfo.isProvisioned
       THEN SetState(STATE_WAITING_FOR_CLAIM, now)
       ELSE UNCHANGED <<currentState, stateChangeTime, prevState>>
    /\ UNCHANGED <<now, wifiRetryBackoff, connectStartTime, attemptInProgress,
                   registrationAttempted, registrationSuccessful,
                   lastWiFiCheck, errorHandler, wsClient, deviceInfo,
                   lastStatusUpdate, prefs, wifi, observed, heartbeatCount,
                   joinLog, factoryResetHandled, restartCause>>

\* handleOperational
HandleOperational ==
    /\ pc = "state"
    /\ currentState = STATE_OPERATIONAL
    /\ pc' = "periodic"
    /\ IF ~deviceInfo.isProvisioned
       THEN SetState(STATE_WAITING_FOR_CLAIM, now)
       ELSE UNCHANGED <<currentState, stateChangeTime, prevState>>
    /\ UNCHANGED <<now, wifiRetryBackoff, connectStartTime, attemptInProgress,
                   registrationAttempted, registrationSuccessful,
                   lastWiFiCheck, errorHandler, wsClient, deviceInfo,
                   lastStatusUpdate, prefs, wifi, observed, heartbeatCount, joinLog,
                   factoryResetHandled, restartCause>>


\* performGlobalCleanup: deletes the session client (the radio and portal
\* it stops are re-initialised by the restart that follows)
PerformGlobalCleanup(x, t) == IF x.c.alive THEN DeleteWSClient(x, t) ELSE x

\* a retry that resumes normal operation
RetryTargetOperational(state) == STATE_OPERATIONAL

\* a retry that goes by the state the machine was in when the step failed
RetryTargetByFailedState(state) ==
    IF prevState = STATE_WIFI_CONNECTING THEN STATE_WIFI_SETUP
    ELSE IF prevState = STATE_DEVICE_REGISTRATION THEN STATE_WIFI_CONNECTING
    ELSE STATE_WIFI_SETUP

\* handleError, case RETRY_OPERATION: the state to go to
RetryTarget(state) ==
    IF state = STATE_WIFI_CONNECTING THEN STATE_WIFI_SETUP
    ELSE IF state = STATE_DEVICE_REGISTRATION THEN STATE_WIFI_CONNECTING
    ELSE STATE_WIFI_SETUP

\* handleError
HandleError ==
    /\ pc = "state"
    /\ currentState = STATE_ERROR
    /\ IF ~ShouldPerformRecovery(errorHandler, now)
       THEN /\ pc' = "periodic"
            /\ UNCHANGED <<now, currentState, stateChangeTime, prevState,
                           wifiRetryBackoff, connectStartTime,
                           attemptInProgress, registrationAttempted,
                           registrationSuccessful, lastWiFiCheck,
                           errorHandler, wsClient, deviceInfo,
                           lastStatusUpdate, prefs, wifi, observed, heartbeatCount, joinLog,
                           factoryResetHandled, restartCause>>
       ELSE LET lastError == errorHandler.lastError
                strategy == GetRecoveryStrategy(errorHandler, lastError)
            IN CASE strategy = "RETRY_OPERATION" ->
                    /\ pc' = "periodic"
                    /\ SetState(RetryTarget(currentState), now)
                    /\ errorHandler' = ClearError(errorHandler)
                    /\ UNCHANGED <<now, wifiRetryBackoff, connectStartTime,
                                   attemptInProgress, registrationAttempted,
                                   registrationSuccessful, lastWiFiCheck,
                                   wsClient, deviceInfo, lastStatusUpdate,
                                   prefs, wifi, observed, heartbeatCount, joinLog,
                                   factoryResetHandled, restartCause>>
                 [] strategy = "RESTART_COMPONENT" ->
                    /\ pc' = "periodic"
                    /\ errorHandler' = ClearError(errorHandler)
                    /\ IF lastError = "WIFI_CONNECTION_FAILED"
                       THEN /\ wifi' = [wifi EXCEPT !.isAPMode = FALSE,
                                                    !.apStartTime = 0]
                            /\ SetState(STATE_WIFI_SETUP, now)
                            /\ UNCHANGED <<wsClient, deviceInfo, prefs,
                                           observed, heartbeatCount>>
                       ELSE IF lastError = "WEBSOCKET_CONNECTION_FAILED"
                       THEN /\ PutX(IF wsClient.alive
                                    THEN DeleteWSClient(X, now) ELSE X)
                            /\ SetState(STATE_DEVICE_REGISTRATION, now)
                            /\ wifi' = wifi
                       ELSE /\ SetState(STATE_WIFI_SETUP, now)
                            /\ UNCHANGED <<wsClient, deviceInfo, prefs,
                                           observed, heartbeatCount, wifi>>
                    /\ UNCHANGED <<now, wifiRetryBackoff, connectStartTime,
                                   attemptInProgress, registrationAttempted,
                                   registrationSuccessful, lastWiFiCheck,
                                   lastStatusUpdate, joinLog,
                                   factoryResetHandled, restartCause>>
                 [] strategy = "SOFT_RESTART" ->
                    Boot(PerformGlobalCleanup(X, now).p, strategy)
                 [] OTHER ->
                    \* HARD_RESTART and FACTORY_RESET
                    Boot(ClearWiFiCredentials(
                            ResetDevice(PerformGlobalCleanup(X, now))).p,
                         strategy)

\* serialEvent, command "restart": performGlobalCleanup(), ESP.restart();
\* serialEvent runs between two calls of loop()
SerialRestart ==
    /\ pc = "tick"
    /\ Boot(PerformGlobalCleanup(X, now).p, "serialRestart")

\* serialEvent, command "reset": performGlobalCleanup(),
\* deviceManager.resetDevice(), wifiManager.clearWiFiCredentials(),
\* ESP.restart()
SerialReset ==
    /\ pc = "tick"
    /\ Boot(ClearWiFiCredentials(
                ResetDevice(PerformGlobalCleanup(X, now))).p, "serialReset")

\* DeviceManager::shouldUpdateStatus
ShouldUpdateStatus(t) == t - lastStatusUpdate > STATUS_UPDATE_INTERVAL

\* a WiFi check on every tick
WiFiCheckDueEveryTick(t) == TRUE

\* handlePeriodicTasks: millis() - lastWiFiCheck > WIFI_CHECK_INTERVAL
WiFiCheckDue(t) == t - lastWiFiCheck > WIFI_CHECK_INTERVAL

\* handlePeriodicTasks; stOk: DeviceManager::updateStatus() got HTTP 200
HandlePeriodicTasks(stOk) ==
    /\ pc = "periodic"
    /\ pc' = "tick"
    /\ stOk => wifi.connected
    /\ LET check == WiFiCheckDue(now)
           lost == check /\ currentState >= STATE_DEVICE_REGISTRATION
                         /\ ~wifi.connected
           state1 == IF lost THEN STATE_ERROR ELSE currentState
           change1 == IF lost /\ currentState # STATE_ERROR THEN now
                      ELSE stateChangeTime
           pastGracePeriod == state1 > STATE_DEVICE_REGISTRATION
                              \/ now - change1 > 10000
           push == state1 >= STATE_DEVICE_REGISTRATION /\ pastGracePeriod
                   /\ ShouldUpdateStatus(now) /\ wifi.connected
       IN /\ IF lost
             THEN /\ errorHandler' =
                        ReportError(errorHandler, "WIFI_CONNECTION_FAILED", now)
                  /\ SetState(STATE_ERROR, now)
             ELSE UNCHANGED <<errorHandler, currentState, stateChangeTime,
                              prevState>>
          /\ lastWiFiCheck' = IF check THEN now ELSE lastWiFiCheck
          /\ stOk => push
          /\ lastStatusUpdate' = IF push /\ stOk THEN now ELSE lastStatusUpdate
    /\ UNCHANGED <<now, wifiRetryBackoff, connectStartTime, attemptInProgress,
                   registrationAttempted, registrationSuccessful, wsClient,
                   deviceInfo, prefs, wifi, observed, heartbeatCount, joinLog,
                   factoryResetHandled, restartCause>>

Next ==
    \/ \E wdOk \in BOOLEAN : Setup(wdOk)
    \/ \E d \in TickDeltas, link \in BOOLEAN : BeginTick(d, link)
    \/ PortalSave
    \/ PortalReset
    \/ SerialRestart
    \/ SerialReset
    \/ \E ev \in PollEvents, ok \in BOOLEAN : LoopWsClient(ev, ok)
    \/ HandleWiFiSetup
    \/ \E ok \in BOOLEAN, d \in {0} \cup JoinOkDelays \cup JoinTimeoutDelays :
          HandleWiFiConnecting(ok, d)
    \/ \E regOk \in BOOLEAN, resp \in RegistrationResponses,
          memOk \in BOOLEAN, wsOk \in BOOLEAN :
          HandleDeviceRegistration(regOk, resp, memOk, wsOk)
    \/ HandleWaitingForClaim
    \/ HandleOperational
    \/ HandleError
    \/ \E stOk \in BOOLEAN : HandlePeriodicTasks(stOk)

Spec == Init /\ [][Next]_vars


(***************************************************************************)
(* The ErrorHandler object on its own: any caller, any sequence of         *)
(* reportError() and clearError() calls, up to MaxReports reports.         *)
(***************************************************************************)
InitErrorHandler == PowerOn("errorHandler")

CallReportError(code) ==
    /\ pc = "errorHandler"
    /\ errorHandler.totalErrorCount < MaxReports
    /\ errorHandler' = ReportError(errorHandler, code, now)
    /\ UNCHANGED <<now, pc, currentState, stateChangeTime, wifiRetryBackoff,
                   connectStartTime, attemptInProgress, registrationAttempted,
                   registrationSuccessful, lastWiFiCheck, wsClient,
                   deviceInfo, lastStatusUpdate, prefs, wifi, observed, heartbeatCount,
                   prevState, joinLog, factoryResetHandled, restartCause>>

CallClearError ==
    /\ pc = "errorHandler"
    /\ errorHandler.lastError # "NONE"
    /\ errorHandler' = ClearError(errorHandler)
    /\ UNCHANGED <<now, pc, currentState, stateChangeTime, wifiRetryBackoff,
                   connectStartTime, attemptInProgress, registrationAttempted,
                   registrationSuccessful, lastWiFiCheck, wsClient,
                   deviceInfo, lastStatusUpdate, prefs, wifi, observed, heartbeatCount,
                   prevState, joinLog, factoryResetHandled, restartCause>>

NextErrorHandler ==
    \/ \E code \in ErrorCode \ {"NONE"} : CallReportError(code)
    \/ CallClearError

SpecErrorHandler == InitErrorHandler /\ [][NextErrorHandler]_vars


(***************************************************************************)
(* One WSClient object on its own, from its creation on: loop() is called  *)
(* again and again, any time apart, with the network doing anything        *)
(***************************************************************************)
SessionDeltas == {0, 10000, 30000}

InitSession == PowerOn("tick")

\* time passes between two calls of loop()
SessionTick(d) ==
    /\ pc = "tick"
    /\ now + d <= MaxSessionTime
    /\ now' = now + d
    /\ pc' = "ws"
    /\ UNCHANGED <<currentState, stateChangeTime, wifiRetryBackoff,
                   connectStartTime, attemptInProgress, registrationAttempted,
                   registrationSuccessful, lastWiFiCheck, errorHandler,
                   wsClient, deviceInfo, lastStatusUpdate, prefs, wifi,
                   observed, heartbeatCount, prevState, joinLog, factoryResetHandled, restartCause>>

\* new WSClient(...), begin(), connect(), as handleDeviceRegistration does
\* them; millis() is past 0 by then, setup() alone delays 1000 ms
SessionCreate(ok) ==
    /\ pc = "ws"
    /\ ~wsClient.alive
    /\ now > 0
    /\ pc' = "tick"
    /\ PutX(Connect(NewSession(X, now), ok, now))
    /\ UNCHANGED <<now, currentState, stateChangeTime, wifiRetryBackoff,
                   connectStartTime, attemptInProgress, registrationAttempted,
                   registrationSuccessful, lastWiFiCheck, errorHandler,
                   lastStatusUpdate, wifi, prevState, joinLog,
                   factoryResetHandled, restartCause>>

\* wsClient->loop()
SessionLoop(ev, ok) ==
    /\ pc = "ws"
    /\ pc' = "tick"
    /\ IF wsClient.alive
       THEN PutX(WsLoop(X, ev, ok, now))
       ELSE /\ ev = "none" /\ ~ok
            /\ UNCHANGED <<wsClient, deviceInfo, prefs, observed, heartbeatCount>>
    /\ UNCHANGED <<now, currentState, stateChangeTime, wifiRetryBackoff,
                   connectStartTime, attemptInProgress, registrationAttempted,
                   registrationSuccessful, lastWiFiCheck, errorHandler,
                   lastStatusUpdate, wifi, prevState, joinLog,
                   factoryResetHandled, restartCause>>

NextSession ==
    \/ \E d \in SessionDeltas : SessionTick(d)
    \/ \E ok \in BOOLEAN : SessionCreate(ok)
    \/ \E ev \in PollEvents, ok \in BOOLEAN : SessionLoop(ev, ok)

SpecSession == InitSession /\ [][NextSession]_vars


(***************************************************************************)
(* The two backoff mechanisms on their own: an ExponentialBackoff object   *)
(* as main.cpp declares them, with recordAttempt() and reset() called in   *)
(* any order, and a WSClient whose loop() retries the connection           *)
(***************************************************************************)
BackoffDeltas == {0, 40000}

InitBackoff == PowerOn("backoff")

BackoffElapse(d) ==
    /\ pc = "backoff"
    /\ d > 0
    /\ now + d <= MaxBackoffTime
    /\ now' = now + d
    /\ UNCHANGED <<pc, currentState, stateChangeTime, wifiRetryBackoff,
                   connectStartTime, attemptInProgress, registrationAttempted,
                   registrationSuccessful, lastWiFiCheck, errorHandler,
                   wsClient, deviceInfo, lastStatusUpdate, prefs, wifi,
                   observed, heartbeatCount, prevState, joinLog, factoryResetHandled, restartCause>>

\* one of the three objects main.cpp declares, newly constructed
BackoffNew(b) ==
    /\ pc = "backoff"
    /\ wifiRetryBackoff # b
    /\ wifiRetryBackoff' = b
    /\ UNCHANGED <<now, pc, currentState, stateChangeTime, connectStartTime,
                   attemptInProgress, registrationAttempted,
                   registrationSuccessful, lastWiFiCheck, errorHandler,
                   wsClient, deviceInfo, lastStatusUpdate, prefs, wifi,
                   observed, heartbeatCount, prevState, joinLog, factoryResetHandled, restartCause>>

CallRecordAttempt ==
    /\ pc = "backoff"
    /\ wifiRetryBackoff.attemptCount < MaxAttempts
    /\ wifiRetryBackoff' = RecordAttempt(wifiRetryBackoff, now)
    /\ UNCHANGED <<now, pc, currentState, stateChangeTime, connectStartTime,
                   attemptInProgress, registrationAttempted,
                   registrationSuccessful, lastWiFiCheck, errorHandler,
                   wsClient, deviceInfo, lastStatusUpdate, prefs, wifi,
                   observed, heartbeatCount, prevState, joinLog, factoryResetHandled, restartCause>>

CallReset ==
    /\ pc = "backoff"
    /\ wifiRetryBackoff.attemptCount > 0
    /\ wifiRetryBackoff' = Reset(wifiRetryBackoff)
    /\ UNCHANGED <<now, pc, currentState, stateChangeTime, connectStartTime,
                   attemptInProgress, registrationAttempted,
                   registrationSuccessful, lastWiFiCheck, errorHandler,
                   wsClient, deviceInfo, lastStatusUpdate, prefs, wifi,
                   observed, heartbeatCount, prevState, joinLog, factoryResetHandled, restartCause>>

\* new WSClient(...)
RetryCreate ==
    /\ pc = "backoff"
    /\ ~wsClient.alive
    /\ PutX(NewSession(X, now))
    /\ UNCHANGED <<now, pc, currentState, stateChangeTime, wifiRetryBackoff,
                   connectStartTime, attemptInProgress, registrationAttempted,
                   registrationSuccessful, lastWiFiCheck, errorHandler,
                   lastStatusUpdate, wifi, prevState, joinLog,
                   factoryResetHandled, restartCause>>

\* wsClient->loop()
RetryLoop(ev, ok) ==
    /\ pc = "backoff"
    /\ wsClient.alive
    /\ PutX(WsLoop(X, ev, ok, now))
    /\ UNCHANGED <<now, pc, currentState, stateChangeTime, wifiRetryBackoff,
                   connectStartTime, attemptInProgress, registrationAttempted,
                   registrationSuccessful, lastWiFiCheck, errorHandler,
                   lastStatusUpdate, wifi, prevState, joinLog,
                   factoryResetHandled, restartCause>>

NextBackoff ==
    \/ \E d \in BackoffDeltas : BackoffElapse(d)
    \/ \E b \in {WifiRetryBackoff0, WsRetryBackoff0, RegistrationBackoff0} :
          BackoffNew(b)
    \/ CallRecordAttempt
    \/ CallReset
    \/ RetryCreate
    \/ \E ev \in {"none", "closed"}, ok \in BOOLEAN : RetryLoop(ev, ok)

SpecBackoff == InitBackoff /\ [][NextBackoff]_vars


(***************************************************************************)
(* Recovery policy of the ErrorHandler (checked under SpecErrorHandler)    *)
(***************************************************************************)
\* the kinds getRecoveryStrategy handles in their own case with a threshold
\* that leads to RESTART_COMPONENT
OwnRestartKinds == {"WIFI_CONNECTION_FAILED", "WEBSOCKET_CONNECTION_FAILED"}

\* the kinds that fall to the default branch of getRecoveryStrategy
DefaultBranchKinds ==
    {"PREFERENCES_ACCESS_FAILED", "HTTP_REQUEST_FAILED",
     "JSON_PARSING_FAILED", "WATCHDOG_INITIALIZATION_FAILED",
     "CAPTIVE_PORTAL_FAILED", "UNKNOWN_ERROR"}

\* every kind whose strategy changes at a count threshold
ThresholdKinds ==
    OwnRestartKinds \cup DefaultBranchKinds \cup {"DEVICE_REGISTRATION_FAILED"}

RestartThreshold(code) ==
    CASE code = "WIFI_CONNECTION_FAILED" -> 3
      [] code = "WEBSOCKET_CONNECTION_FAILED" -> 5
      [] code = "DEVICE_REGISTRATION_FAILED" -> 3
      [] OTHER -> MAX_ERROR_RETRIES

RetryThenRestartComponent(code) ==
    GetRecoveryStrategy(errorHandler, code) =
        IF errorHandler.errorCounts[code] < RestartThreshold(code)
        THEN "RETRY_OPERATION" ELSE "RESTART_COMPONENT"

\* C6 as stated: every kind with a threshold gets RETRY_OPERATION below it
\* and RESTART_COMPONENT at or above it.
C6_AsStated == \A code \in ThresholdKinds : RetryThenRestartComponent(code)

\* C6, amended: RETRY_OPERATION below the threshold and RESTART_COMPONENT at
\* or above it holds for the network-join kind (threshold 3) and the
\* session-transport kind (threshold 5) whatever the total is, and for the
\* kinds of the default branch (threshold MAX_ERROR_RETRIES) while the total
\* does not exceed CRITICAL_ERROR_THRESHOLD, where they get HARD_RESTART
\* instead; registration failure gets RETRY_OPERATION below 3 and
\* SOFT_RESTART, not RESTART_COMPONENT, from 3 on.
C6_RetryThenRestart ==
    /\ \A code \in OwnRestartKinds : RetryThenRestartComponent(code)
    /\ \A code \in DefaultBranchKinds :
          IF errorHandler.totalErrorCount > CRITICAL_ERROR_THRESHOLD
          THEN GetRecoveryStrategy(errorHandler, code) = "HARD_RESTART"
          ELSE RetryThenRestartComponent(code)
    /\ GetRecoveryStrategy(errorHandler, "DEVICE_REGISTRATION_FAILED") =
          IF errorHandler.errorCounts["DEVICE_REGISTRATION_FAILED"] < 3
          THEN "RETRY_OPERATION" ELSE "SOFT_RESTART"

\* a ledger where one kind sits exactly on its threshold, another is below
\* its own, and a default-branch kind has been reported
C6_Witness ==
    /\ pc = "errorHandler"
    /\ errorHandler.errorCounts["WIFI_CONNECTION_FAILED"] = 3
    /\ errorHandler.errorCounts["WEBSOCKET_CONNECTION_FAILED"] = 1
    /\ errorHandler.errorCounts["HTTP_REQUEST_FAILED"] = 1
    /\ errorHandler.lastError = "HTTP_REQUEST_FAILED"

\* C7: once the total error count exceeds CRITICAL_ERROR_THRESHOLD,
\* getRecoveryStrategy returns HARD_RESTART for every error kind.
C7_HardRestartAboveCritical ==
    errorHandler.totalErrorCount > CRITICAL_ERROR_THRESHOLD =>
        \A code \in ErrorCode \ {"NONE"} :
            GetRecoveryStrategy(errorHandler, code) = "HARD_RESTART"

\* only registration failures have been reported since construction
OnlyRegistrationFailures ==
    /\ pc = "errorHandler"
    /\ errorHandler.totalErrorCount =
           errorHandler.errorCounts["DEVICE_REGISTRATION_FAILED"]

\* C8 as stated: from an empty ledger the registration strategy is
\* RETRY_OPERATION after the first failure and RESTART_COMPONENT after five.
C8_AsStated ==
    OnlyRegistrationFailures =>
        /\ errorHandler.totalErrorCount = 1 =>
              GetRecoveryStrategy(errorHandler, "DEVICE_REGISTRATION_FAILED")
                  = "RETRY_OPERATION"
        /\ errorHandler.totalErrorCount = 5 =>
              GetRecoveryStrategy(errorHandler, "DEVICE_REGISTRATION_FAILED")
                  = "RESTART_COMPONENT"

\* C8, amended: from an empty ledger the registration strategy is
\* RETRY_OPERATION after the first and the second failure and has escalated
\* to SOFT_RESTART after the third, which it still is after five.
C8_RegistrationEscalation ==
    OnlyRegistrationFailures =>
        /\ errorHandler.totalErrorCount \in 1..2 =>
              GetRecoveryStrategy(errorHandler, "DEVICE_REGISTRATION_FAILED")
                  = "RETRY_OPERATION"
        /\ errorHandler.totalErrorCount \in 3..5 =>
              GetRecoveryStrategy(errorHandler, "DEVICE_REGISTRATION_FAILED")
                  = "SOFT_RESTART"

\* five registration failures in a row and nothing else
C8_Witness ==
    /\ OnlyRegistrationFailures
    /\ errorHandler.totalErrorCount = 5
    /\ errorHandler.lastError = "DEVICE_REGISTRATION_FAILED"


(***************************************************************************)
(* Lifecycle properties (checked under Spec)                               *)
(***************************************************************************)
\* the last entry of the join log
LastJoin == joinLog[Len(joinLog)]

\* C2: after a network join succeeds the join backoff is in its initial state
\* (current delay = initial delay, attempt count 0), and while a session
\* connection is open the session retry is in its initial state (retry
\* counter 0, retry interval = the base interval).
C2_ResetAfterSuccess ==
    /\ (joinLog # <<>> /\ LastJoin.ok) =>
          /\ wifiRetryBackoff.currentDelay = wifiRetryBackoff.initialDelay
          /\ wifiRetryBackoff.attemptCount = 0
    /\ (wsClient.alive /\ wsClient.isConnected) =>
          /\ wsClient.retryAttempts = 0
          /\ RetryInterval(wsClient.retryAttempts)
                = REGISTRATION_RETRY_INTERVAL

\* the join succeeded and the session was opened by a retry of loop()
C2_Witness ==
    /\ joinLog # <<>> /\ LastJoin.ok
    /\ wsClient.alive /\ wsClient.isConnected
    /\ observed.retriesBeforeOpen >= 1

\* C3: no step takes the lifecycle state from Init to Operational, and none
\* takes it from NetworkConnecting to AwaitingClaim.
C3_RegistrationInBetween ==
    [][/\ ~(currentState = STATE_INIT /\ currentState' = STATE_OPERATIONAL)
       /\ ~(currentState = STATE_WIFI_CONNECTING
              /\ currentState' = STATE_WAITING_FOR_CLAIM)]_vars

\* the device waits for its claim, having come there from registration after
\* a join
C3_Witness ==
    /\ currentState = STATE_WAITING_FOR_CLAIM
    /\ prevState = STATE_DEVICE_REGISTRATION
    /\ joinLog # <<>> /\ LastJoin.ok

\* C9: when the join fails on attempts 1 and 2 and succeeds on attempt 3,
\* the wait in force after attempt 1 is 2 s and after attempt 2 is 4 s, and
\* after the success the join backoff is reset.
C9_JoinOnThirdAttempt ==
    (/\ Len(joinLog) = 3
     /\ ~joinLog[1].ok /\ ~joinLog[2].ok /\ joinLog[3].ok) =>
        /\ joinLog[1].wait = 2000
        /\ joinLog[2].wait = 4000
        /\ wifiRetryBackoff.currentDelay = 2000
        /\ wifiRetryBackoff.attemptCount = 0

\* C10: a factoryReset event that has been handled has restarted the device:
\* no state has the event handled and the device still running past Init.
C10_FactoryResetRestarts ==
    factoryResetHandled =>
        /\ currentState = STATE_INIT
        /\ ~deviceInfo.isProvisioned


(***************************************************************************)
(* Backoff (checked under SpecBackoff)                                     *)
(***************************************************************************)
\* C1: in both backoff domains the delay in force after an attempt is not
\* below the delay in force before it, as long as no reset comes in between,
\* and the delay never exceeds the domain's maximum: maxDelay of the
\* ExponentialBackoff object, MAX_RETRY_INTERVAL for the session retry.
C1_BackoffMonotoneAndCapped ==
    [][/\ wifiRetryBackoff'.attemptCount > wifiRetryBackoff.attemptCount =>
             wifiRetryBackoff'.currentDelay >= wifiRetryBackoff.currentDelay
       /\ wifiRetryBackoff'.currentDelay <= wifiRetryBackoff'.maxDelay
       /\ wsClient'.retryAttempts > wsClient.retryAttempts =>
             RetryInterval(wsClient'.retryAttempts)
                >= RetryInterval(wsClient.retryAttempts)
       /\ RetryInterval(wsClient'.retryAttempts) <= MAX_RETRY_INTERVAL]_vars

\* both domains have reached their maximum and gone on attempting
C1_Witness ==
    /\ pc = "backoff"
    /\ wifiRetryBackoff.attemptCount > 5
    /\ wifiRetryBackoff.currentDelay = wifiRetryBackoff.maxDelay
    /\ wsClient.alive /\ wsClient.retryAttempts = 5
    /\ RetryInterval(wsClient.retryAttempts) = MAX_RETRY_INTERVAL

(***************************************************************************)
(* Session liveness (checked under SpecSession)                            *)
(***************************************************************************)
\* a step that is one call of loop() on the existing client
LoopStep == pc = "ws" /\ pc' = "tick" /\ wsClient.alive

\* C4: a call of loop() on a connected session whose last acknowledgment is
\* more than 3 x HEARTBEAT_INTERVAL old, and which brings no new one, leaves
\* the session closed, marked disconnected and the device offline; between
\* two connection opens the liveness check tears down at most once; and a
\* call of loop() on a disconnected session that does not reconnect it tears
\* nothing down and leaves the offline mark as it is.
C4_TeardownOnce ==
    [][LoopStep =>
        /\ (/\ wsClient.isConnected
            /\ LivenessTimedOut(X, now)
            /\ wsClient'.lastPongReceived = wsClient.lastPongReceived) =>
               /\ ~wsClient'.isConnected
               /\ ~wsClient'.available
               /\ ~deviceInfo'.isOnline
        /\ observed'.teardowns <= 1
        /\ (~wsClient.isConnected /\ ~wsClient'.isConnected) =>
               /\ observed'.teardowns = observed.teardowns
               /\ deviceInfo'.isOnline = deviceInfo.isOnline
               /\ wsClient'.available = wsClient.available]_vars

\* the liveness check has torn the session down, and loop() has run again
\* since then without bringing the connection back
C4_Witness ==
    /\ observed.teardowns = 1
    /\ observed.closedBy = "timeout"
    /\ wsClient.alive /\ ~wsClient.isConnected
    /\ ~deviceInfo.isOnline
    /\ wsClient.retryAttempts >= 1

\* no acknowledgment has arrived since the connection opened
NoAckSinceOpen(c, o) == c.lastPongReceived = o.openedAt

\* C5: on a session that has had no acknowledgment since it opened, loop()
\* sends a heartbeat when more than HEARTBEAT_INTERVAL has passed since the
\* last one (the open counts as one) and not before; the liveness check
\* tears the session down when more than 3 x HEARTBEAT_INTERVAL have passed
\* since the open and not before; after the teardown isClientConnected() is
\* false; and loop() attempts a connection on a disconnected session only
\* when more than the current retry interval has passed since the last
\* attempt or close.
C5_ScenarioB ==
    [][(LoopStep /\ NoAckSinceOpen(wsClient, observed)) =>
        /\ (wsClient.isConnected /\ wsClient'.isConnected) =>
              /\ NoAckSinceOpen(wsClient', observed') =>
                    now - observed.openedAt <= 3 * HEARTBEAT_INTERVAL
              /\ wsClient'.lastHeartbeat =
                    IF now - wsClient.lastHeartbeat > HEARTBEAT_INTERVAL
                    THEN now ELSE wsClient.lastHeartbeat
        /\ observed'.teardowns > observed.teardowns =>
              /\ now - observed.openedAt > 3 * HEARTBEAT_INTERVAL
              /\ ~IsClientConnected(X')
        /\ (~wsClient.isConnected
              /\ (wsClient'.isConnected
                    \/ wsClient'.lastConnectionAttempt
                          # wsClient.lastConnectionAttempt)) =>
              now - wsClient.lastConnectionAttempt >
                 RetryInterval(IF now - wsClient.lastRetryReset
                                     > RETRY_RESET_INTERVAL
                               THEN 0 ELSE wsClient.retryAttempts)]_vars

\* the session opened, heartbeats went out, no acknowledgment ever came, the
\* liveness check tore it down, and a later loop() tried to connect again
C5_Witness ==
    /\ pc = "tick"
    /\ observed.closedBy = "timeout"
    /\ observed.openedAt > 0
    /\ NoAckSinceOpen(wsClient, observed)
    /\ wsClient.lastHeartbeat > observed.openedAt
    /\ wsClient.alive /\ ~IsClientConnected(X)
    /\ wsClient.retryAttempts = 1
    /\ wsClient.lastConnectionAttempt >
          observed.openedAt + 3 * HEARTBEAT_INTERVAL
             + REGISTRATION_RETRY_INTERVAL


(***************************************************************************)
(* Inbound messages the dispatcher does not know (checked under Spec)      *)
(***************************************************************************)
\* the call of wsClient->loop() in loop()
WsStep == pc = "ws" /\ pc' = "state"

\* C11: an inbound message with an unknown event name, without an event
\* field, or that fails to decode changes nothing.  The callback returns the
\* session, the device info and the flash as it found them (connected stays
\* connected, the provisioned flag stays), the loop() call that delivered it
\* ends as a call that received nothing ends, and the step adds nothing to
\* the error ledger and leaves the lifecycle state.
C11_IgnoredMessagesChangeNothing ==
    [][WsStep =>
         /\ errorHandler' = errorHandler
         /\ currentState' = currentState
         /\ wsClient.isConnected =>
               \A ev \in IgnoredMessages :
                  /\ Poll(X, ev, now) = X
                  /\ \A ok \in BOOLEAN :
                        WsLoop(X, ev, ok, now) = WsLoop(X, "none", ok, now)]_vars

\* a connected, provisioned, operational device with errors on the ledger,
\* about to run wsClient->loop()
C11_Witness ==
    /\ pc = "ws"
    /\ IsClientConnected(X)
    /\ deviceInfo.isProvisioned
    /\ currentState = STATE_OPERATIONAL
    /\ errorHandler.totalErrorCount > 0
    /\ now - wsClient.lastHeartbeat > HEARTBEAT_INTERVAL


(***************************************************************************)
(* Heartbeats, opens and closes of one session (checked under SpecSession) *)
(***************************************************************************)
\* sendHeartbeat got past its connection check: it counts every ping it sends
HeartbeatSent == heartbeatCount' # heartbeatCount

\* C12: a heartbeat is sent only when the session is connected and more than
\* HEARTBEAT_INTERVAL has elapsed since the previous heartbeat, or since the
\* connection was opened; never while disconnected, never sooner.  The step
\* that sends one starts with a connected session whose last heartbeat and
\* whose open are both more than the interval back, stamps the heartbeat
\* with the current time, and ends with the session still connected unless
\* the liveness check of the same loop() call tore it down.
C12_HeartbeatOnlyWhenDue ==
    [][HeartbeatSent =>
         /\ IsClientConnected(X)
         /\ now - wsClient.lastHeartbeat > HEARTBEAT_INTERVAL
         /\ now - observed.openedAt > HEARTBEAT_INTERVAL
         /\ wsClient.lastHeartbeat >= observed.openedAt
         /\ wsClient'.lastHeartbeat = now
         /\ \/ IsClientConnected(X')
            \/ observed'.teardowns = observed.teardowns + 1]_vars

\* the second heartbeat of a connection has just been sent
C12_Witness ==
    /\ pc = "tick"
    /\ IsClientConnected(X)
    /\ wsClient.lastHeartbeat = now
    /\ heartbeatCount >= 2
    /\ now - observed.openedAt > 2 * HEARTBEAT_INTERVAL
    /\ now - observed.openedAt < 3 * HEARTBEAT_INTERVAL

\* a successful connect(): the step takes the session from not connected to
\* connected
OpenStep == ~wsClient.isConnected /\ wsClient'.isConnected

\* C13: on every connection open, a reconnection after a liveness-timeout
\* teardown included, the liveness timer is reset before the next liveness
\* check runs, and the registerDevice announcement is sent before any
\* deviceStatus message of that connection, followed by an initial
\* deviceStatus snapshot.  The step that opens sets the pong time to the
\* time of the open and has sent registerDevice, then deviceStatus; on a
\* connected session the pong time is never older than the open and the
\* messages sent start with these two; and no liveness teardown comes
\* sooner than three heartbeat intervals after the open.
C13_OpenResetsAndAnnounces ==
    [][/\ OpenStep =>
            /\ wsClient'.lastPongReceived = now
            /\ observed'.openedAt = now
            /\ ~LivenessTimedOut(X', now)
            /\ observed'.sent = <<"registerDevice", "deviceStatus">>
       /\ wsClient.isConnected =>
            /\ wsClient.lastPongReceived >= observed.openedAt
            /\ observed.openedAt > 0
            /\ Len(observed.sent) >= 2
            /\ observed.sent[1] = "registerDevice"
            /\ observed.sent[2] = "deviceStatus"
       /\ observed'.teardowns > observed.teardowns =>
            now - observed.openedAt > HEARTBEAT_INTERVAL * 3]_vars

\* a session reopened by loop() after a liveness-timeout teardown, one pass
\* of loop() later
C13_Witness ==
    /\ pc = "ws"
    /\ IsClientConnected(X)
    /\ observed.reopenedAfter = "timeout"
    /\ observed.retriesBeforeOpen >= 1
    /\ wsClient.lastPongReceived = observed.openedAt
    /\ now > observed.openedAt

\* the session closes: the remote end closed it, disconnect() closed it, or
\* isClientConnected() found the client unavailable
CloseStep ==
    \/ wsClient.isConnected /\ wsClient'.alive /\ ~wsClient'.isConnected
    \/ observed'.closedBy \notin {"none", observed.closedBy}

\* connect() got as far as client.connect()
ConnectAttempted == OpenStep \/ observed'.connects > observed.connects

\* C14: on every connection close, whether a remote close event, a local
\* disconnect() or the detection that the client is unavailable, the session
\* is marked disconnected and the device's online flag is set false, and no
\* connect attempt is made inside the callback: after a close, connect()
\* runs only from a later loop() call in which shouldRetryConnection()
\* permits it.  A session that is not connected is never marked online.
C14_CloseMarksAndDefersReconnect ==
    [][/\ CloseStep =>
            /\ ~wsClient'.isConnected
            /\ ~deviceInfo'.isOnline
            /\ observed'.closedBy \in {"remote", "timeout", "unavailable"}
            /\ ~ConnectAttempted
       /\ (wsClient.alive /\ ConnectAttempted) =>
            /\ LoopStep
            /\ ~wsClient.isConnected
            /\ ShouldRetryConnection(X, now)
       /\ (wsClient.alive /\ ~wsClient.isConnected) =>
            ~deviceInfo.isOnline]_vars

\* the client was found unavailable, and a later loop() call has retried the
\* connection without success
C14_Witness ==
    /\ pc = "tick"
    /\ wsClient.alive
    /\ ~wsClient.isConnected
    /\ ~deviceInfo.isOnline
    /\ observed.closedBy = "unavailable"
    /\ observed.connects >= 1
    /\ wsClient.lastConnectionAttempt = now


(***************************************************************************)
(* Restart and factory reset (checked under Spec)                          *)
(***************************************************************************)
\* the restarts that keep the flash, and those that clear it
SoftRestarts == {"serialRestart", "SOFT_RESTART"}
FactoryResets == {"serialReset", "HARD_RESTART", "FACTORY_RESET"}

\* the device is in Init with nothing of the last run left in RAM
FreshInit ==
    /\ pc = "setup"
    /\ currentState = STATE_INIT
    /\ ~wsClient.alive
    /\ errorHandler = NewErrorHandler
    /\ ~registrationAttempted /\ ~registrationSuccessful

\* C18: a soft-restart command re-enters Init with stored network
\* credentials, device identity and the provisioned flag unchanged, whereas
\* a factory-reset command clears the persisted identity, the provisioned
\* flag and the network credentials before restarting into Init.
C18_RestartKeepsResetClears ==
    /\ restartCause.by \in SoftRestarts =>
          FreshInit /\ prefs = restartCause.flash
    /\ restartCause.by \in FactoryResets =>
          FreshInit /\ prefs = EmptyFlash

\* the serial reset command has just cleared a flash that held credentials,
\* an identity and the provisioned flag
C18_Witness ==
    /\ restartCause.by = "serialReset"
    /\ restartCause.flash =
          [ssid |-> TRUE, deviceId |-> TRUE, provisioned |-> TRUE]
    /\ prefs = EmptyFlash
    /\ FreshInit

\* the serial restart command has just restarted a provisioned device
C18_SoftRestartReached ==
    /\ restartCause.by = "serialRestart"
    /\ prefs = [ssid |-> TRUE, deviceId |-> TRUE, provisioned |-> TRUE]
    /\ FreshInit


(***************************************************************************)
(* Allocation failure in Registering (checked under Spec)                  *)
(***************************************************************************)
\* counter values around the thresholds and at the ends of uint8_t
CountSamples == {0, 3, 6, 255}

\* the ledger with the allocation-failure count k and the total count n
WithCounts(eh, k, n) ==
    [eh EXCEPT !.errorCounts["MEMORY_ALLOCATION_FAILED"] = k,
               !.totalErrorCount = n]

\* handleDeviceRegistration reports an allocation failure
AllocationFailureStep ==
    /\ pc = "state"
    /\ currentState = STATE_DEVICE_REGISTRATION
    /\ errorHandler'.lastError = "MEMORY_ALLOCATION_FAILED"
    /\ errorHandler' # errorHandler

\* handleError recovers from an allocation failure
AllocationRecoveryStep ==
    /\ pc = "state"
    /\ currentState = STATE_ERROR
    /\ errorHandler.lastError = "MEMORY_ALLOCATION_FAILED"
    /\ ShouldPerformRecovery(errorHandler, now)
    /\ pc' # pc

RegistrationErrors ==
    {"DEVICE_REGISTRATION_FAILED", "MEMORY_ALLOCATION_FAILED",
     "WEBSOCKET_CONNECTION_FAILED"}

\* handleDeviceRegistration runs with no attempt pending: it registers
RegistrationAttemptStep ==
    /\ pc = "state"
    /\ currentState = STATE_DEVICE_REGISTRATION
    /\ ~registrationSuccessful
    /\ ~registrationAttempted
    /\ pc' = "periodic"

\* the step registered, opened the session, and moved on by the flag
RegisteredAndConnected ==
    /\ currentState' = (IF deviceInfo'.isProvisioned THEN STATE_OPERATIONAL
                        ELSE STATE_WAITING_FOR_CLAIM)
    /\ registrationSuccessful'
    /\ IsClientConnected(X')
    /\ observed'.openedAt = now
    /\ prefs'.provisioned = deviceInfo'.isProvisioned
    /\ prefs'.deviceId = deviceInfo'.hasDeviceId
    /\ errorHandler' = errorHandler

\* the step reported a failure and went to Fault
FailedIntoFault ==
    /\ currentState' = STATE_ERROR
    /\ errorHandler'.lastError \in RegistrationErrors
    /\ errorHandler'.totalErrorCount = errorHandler.totalErrorCount + 1
    /\ errorHandler'.lastErrorTime = now
    /\ ~registrationSuccessful'

\* C20: the machine leaves Registering for AwaitingClaim or Operational only
\* in a step in which both the minimal registration and the session connect
\* succeeded, choosing Operational exactly when the provisioned flag is true
\* and AwaitingClaim otherwise; if either fails, an error is reported and
\* the state becomes Fault.
C20_LeavesRegisteringOnlyOnSuccess ==
    [][/\ (currentState = STATE_DEVICE_REGISTRATION
              /\ currentState' \in {STATE_WAITING_FOR_CLAIM,
                                    STATE_OPERATIONAL}) =>
            RegistrationAttemptStep /\ RegisteredAndConnected
       /\ RegistrationAttemptStep =>
            RegisteredAndConnected \/ FailedIntoFault]_vars

\* registration and session connect have just succeeded for a device the
\* server reports as claimed
C20_Witness ==
    /\ pc = "periodic"
    /\ currentState = STATE_OPERATIONAL
    /\ prevState = STATE_DEVICE_REGISTRATION
    /\ stateChangeTime = now
    /\ registrationSuccessful
    /\ IsClientConnected(X)
    /\ observed.openedAt = now
    /\ deviceInfo.isProvisioned


(***************************************************************************)
(* Re-entering Registering (checked under Spec)                            *)
(***************************************************************************)
\* handleDeviceRegistration runs
RegistrationHandlerStep ==
    /\ pc = "state"
    /\ currentState = STATE_DEVICE_REGISTRATION
    /\ pc' = "periodic"

\* C16: every time the machine enters Registering, a re-entry after a Fault
\* recovery when a registration already succeeded earlier in the same boot
\* included, a registration attempt is eventually made, and if registration
\* and the session connect succeed the machine eventually leaves Registering
\* for AwaitingClaim or Operational.  Every run of the handler in
\* Registering therefore either makes an attempt or waits out the retry
\* interval of an attempt that failed, after which it makes one.
C16_EveryEntryRegisters ==
    [][RegistrationHandlerStep =>
         \/ RegistrationAttemptStep
         \/ registrationAttempted /\ ~registrationSuccessful]_vars


(***************************************************************************)
(* The lifecycle through a long outage of the server, with the WiFi link   *)
(* holding and memory sufficient: ticks far enough apart for every loop()  *)
(* call of a disconnected session to retry                                 *)
(***************************************************************************)
OutageDeltas == {0, MAX_RETRY_INTERVAL + 10000}

OutageTick(d, link) ==
    /\ now + d <= MaxOutageTime
    /\ LoopStart(d, link)

NextOutage ==
    \/ Setup(TRUE)
    \/ \E d \in OutageDeltas : OutageTick(d, wifi.connected)
    \/ PortalSave
    \/ \E ev \in {"none", "closed"}, ok \in BOOLEAN : LoopWsClient(ev, ok)
    \/ HandleWiFiSetup
    \/ \E d \in {0} \cup JoinOkDelays : HandleWiFiConnecting(TRUE, d)
    \/ \E resp \in RegistrationResponses, wsOk \in BOOLEAN :
          HandleDeviceRegistration(TRUE, resp, TRUE, wsOk)
    \/ HandleWaitingForClaim
    \/ HandleOperational
    \/ HandleError
    \/ \E stOk \in BOOLEAN : HandlePeriodicTasks(stOk)

SpecOutage == Init /\ [][NextOutage]_vars

\* the cap of retryAttempts in shouldRetryConnection
RetryBudget == 5

\* C17: in Operational, when the session transport is lost and reconnect
\* attempts keep failing beyond the retry budget, the lifecycle state
\* becomes Fault: once a pass of loop() is over, the machine is not in
\* Operational with a session that has failed to reconnect more often than
\* the budget allows.
C17_FaultBeyondRetryBudget ==
    (pc = "tick" /\ wsClient.alive /\ ~wsClient.isConnected
        /\ observed.connects > RetryBudget)
    => currentState # STATE_OPERATIONAL


(***************************************************************************)
(* The lifecycle with loop() running for ever.  Arduino's main task calls  *)
(* loop() again as soon as it has returned, and every handler returns, so  *)
(* a step that is possible is taken (weak fairness of the next step);      *)
(* millis() goes on counting, so of the ticks those that come later than   *)
(* the one before keep occurring for as long as the time covered allows    *)
(* (strong fairness: such a tick is possible only at the start of loop()). *)
(* No command arrives on the serial port or the portal's reset page.       *)
(***************************************************************************)
NextRunning ==
    \/ \E wdOk \in BOOLEAN : Setup(wdOk)
    \/ \E d \in TickDeltas, link \in BOOLEAN : BeginTick(d, link)
    \/ PortalSave
    \/ \E ev \in {"none", "closed"}, ok \in BOOLEAN : LoopWsClient(ev, ok)
    \/ HandleWiFiSetup
    \/ \E ok \in BOOLEAN, d \in {0} \cup JoinOkDelays \cup JoinTimeoutDelays :
          HandleWiFiConnecting(ok, d)
    \/ \E regOk \in BOOLEAN, resp \in RegistrationResponses,
          memOk \in BOOLEAN, wsOk \in BOOLEAN :
          HandleDeviceRegistration(regOk, resp, memOk, wsOk)
    \/ HandleWaitingForClaim
    \/ HandleOperational
    \/ HandleError
    \/ \E stOk \in BOOLEAN : HandlePeriodicTasks(stOk)

\* a tick later than the one before
AdvancingTick ==
    \E d \in TickDeltas \ {0}, link \in BOOLEAN : BeginTick(d, link)

SpecRunning ==
    /\ Init
    /\ [][NextRunning]_vars
    /\ WF_vars(NextRunning)
    /\ SF_vars(AdvancingTick)

\* the time covered allows another tick later than this one
TimeCanAdvance == \E d \in TickDeltas \ {0} : now + d <= MaxTime

\* C15: Fault is never terminal: whenever the lifecycle state is Fault, then,
\* provided ticks keep running and time advances, the machine eventually
\* leaves Fault, either to the state chosen by the recovery strategy
\* (WIFI_SETUP or DEVICE_REGISTRATION) or through a restart into Init.
C15_FaultIsLeft ==
    (currentState = STATE_ERROR /\ TimeCanAdvance)
        ~> (currentState \in {STATE_INIT, STATE_WIFI_SETUP,
                              STATE_DEVICE_REGISTRATION})

\* handleError has just recovered from a WiFi loss reported while the
\* machine was beyond Registering
C15_Witness ==
    /\ pc = "periodic"
    /\ prevState = STATE_ERROR
    /\ currentState = STATE_WIFI_SETUP
    /\ stateChangeTime = now
    /\ errorHandler.lastError = "NONE"
    /\ errorHandler.errorCounts["WIFI_CONNECTION_FAILED"] >= 1
    /\ registrationSuccessful


(***************************************************************************)
(* Leaving NetworkConnecting (checked under Spec)                          *)
(***************************************************************************)
\* handleWiFiConnecting runs
JoinStep ==
    /\ pc = "state"
    /\ currentState = STATE_WIFI_CONNECTING
    /\ pc' = "periodic"

\* C21: from NetworkConnecting the machine moves to Registering only after a
\* successful join, and to Fault only after the configured number of join
\* attempts (MAX_WIFI_RETRY_ATTEMPTS) has been made or the total join
\* timeout has elapsed; a single failed attempt under the attempt limit does
\* not by itself lead to Fault.  Attempts are the calls of connectToWiFi()
\* in this stay, the total time is the time since NetworkConnecting was
\* entered.
C21_LeavesConnectingOnJoinOrLimit ==
    [][currentState = STATE_WIFI_CONNECTING =>
         /\ currentState' \in {STATE_WIFI_CONNECTING,
                                STATE_DEVICE_REGISTRATION, STATE_ERROR,
                                STATE_INIT}
         /\ currentState' = STATE_DEVICE_REGISTRATION =>
               /\ JoinStep
               /\ wifi'.connected
               /\ joinLog'[Len(joinLog')].ok
         /\ currentState' = STATE_ERROR =>
               /\ JoinStep
               /\ ~wifi'.connected
               /\ \/ Len(joinLog') >= MAX_WIFI_RETRY_ATTEMPTS
                  \/ now' - stateChangeTime > WIFI_CONNECT_TIMEOUT
         /\ (JoinStep /\ ~wifi'.connected
                /\ Len(joinLog') < MAX_WIFI_RETRY_ATTEMPTS
                /\ now' - stateChangeTime <= WIFI_CONNECT_TIMEOUT) =>
               currentState' = STATE_WIFI_CONNECTING]_vars

\* one join attempt has failed, and the machine is still in
\* NetworkConnecting
C21_Witness ==
    /\ pc = "periodic"
    /\ currentState = STATE_WIFI_CONNECTING
    /\ Len(joinLog) = 1
    /\ ~joinLog[1].ok /\ ~joinLog[1].last
    /\ now - stateChangeTime = WIFI_CONNECT_TIMEOUT
    /\ wifiRetryBackoff.attemptCount = 1

\* C22: in NetworkConnecting a network join is attempted only when the
\* network-join backoff permits it, that is when now - lastAttemptAt >=
\* currentDelay; no join attempt is made in a tick in which shouldRetry()
\* is false.  Every run of handleWiFiConnecting calls connectToWiFi(), so
\* every run must find shouldRetry() true.
C22_JoinOnlyWhenBackoffPermits ==
    [][JoinStep => ShouldRetry(wifiRetryBackoff, now)]_vars

\* C23: the network-join backoff (delay and attempt count) is reset only when
\* a join succeeds or the idle window elapses; leaving NetworkConnecting for
\* Fault after failed joins leaves the backoff as the failed attempts left
\* it.  The step into Fault carries the attempts recorded so far: the count
\* is at least one and the delay is above the initial delay.
C23_BackoffKeptThroughFault ==
    [][(JoinStep /\ currentState' = STATE_ERROR) =>
          /\ wifiRetryBackoff'.attemptCount >= 1
          /\ wifiRetryBackoff'.currentDelay > wifiRetryBackoff'.initialDelay]_vars


(***************************************************************************)
(* AwaitingClaim and Operational                                           *)
(***************************************************************************)
\* one run of the state machine
StateStep == pc = "state" /\ pc' = "periodic"

\* C24: in AwaitingClaim, once the provisioned flag is true the next
\* state-step moves to Operational; in Operational, once the flag is false
\* the next state-step moves to AwaitingClaim.  The flag is set by the
\* deviceClaimed and setupComplete messages, in memory and in flash, and
\* is not changed by the state-step itself.
C24_ProvisionedFlagDrivesState ==
    [][/\ StateStep =>
            /\ (currentState = STATE_WAITING_FOR_CLAIM
                   /\ deviceInfo.isProvisioned)
                  => currentState' = STATE_OPERATIONAL
            /\ (currentState = STATE_OPERATIONAL /\ ~deviceInfo.isProvisioned)
                  => currentState' = STATE_WAITING_FOR_CLAIM
            /\ currentState \in {STATE_WAITING_FOR_CLAIM, STATE_OPERATIONAL}
                  => deviceInfo' = deviceInfo
       /\ (WsStep /\ wsClient.alive) =>
            \A ev \in {"deviceClaimed", "setupComplete"} :
               /\ OnMessageCallback(X, ev).d.isProvisioned
               /\ OnMessageCallback(X, ev).p.provisioned]_vars

\* a device that waited for its claim more than one tick, was claimed over
\* the live session, and has just moved to Operational
C24_Witness ==
    /\ pc = "periodic"
    /\ currentState = STATE_OPERATIONAL
    /\ prevState = STATE_WAITING_FOR_CLAIM
    /\ stateChangeTime = now
    /\ deviceInfo.isProvisioned
    /\ prefs.provisioned
    /\ IsClientConnected(X)
    /\ now - observed.openedAt >= 10000

\* the device restarts: RAM is as at power-on and setup() runs next
RestartStep == pc' = "setup"

\* C25 as stated: AwaitingClaim has no failure transition; while the state
\* is AwaitingClaim, the only state it can change to is Operational (a
\* restart of the device aside).
C25_AwaitingClaimOnlyToOperational ==
    [][(currentState = STATE_WAITING_FOR_CLAIM /\ ~RestartStep) =>
          currentState' \in {STATE_WAITING_FOR_CLAIM, STATE_OPERATIONAL}]_vars

\* C25 amended: the state-step of AwaitingClaim has no failure transition:
\* it changes the state only to Operational, and only when the provisioned
\* flag is set.  The one other change of state without a restart is made by
\* the periodic WiFi check, which reports WIFI_CONNECTION_FAILED and moves
\* AwaitingClaim to Fault when it is due and finds the link down.
C25_AwaitingClaimToOperationalOrLinkFault ==
    [][(currentState = STATE_WAITING_FOR_CLAIM /\ ~RestartStep) =>
          /\ currentState' \in {STATE_WAITING_FOR_CLAIM, STATE_OPERATIONAL,
                                 STATE_ERROR}
          /\ StateStep =>
                currentState' \in {STATE_WAITING_FOR_CLAIM, STATE_OPERATIONAL}
          /\ currentState' = STATE_OPERATIONAL =>
                StateStep /\ deviceInfo.isProvisioned
          /\ currentState' = STATE_ERROR =>
                /\ pc = "periodic"
                /\ ~wifi.connected
                /\ now - lastWiFiCheck > WIFI_CHECK_INTERVAL
                /\ errorHandler'.lastError = "WIFI_CONNECTION_FAILED"
                /\ errorHandler'.lastErrorTime = now]_vars

\* the periodic WiFi check has just moved a waiting device with a session
\* object to Fault
C25_Witness ==
    /\ pc = "tick"
    /\ currentState = STATE_ERROR
    /\ prevState = STATE_WAITING_FOR_CLAIM
    /\ stateChangeTime = now
    /\ lastWiFiCheck = now
    /\ ~wifi.connected
    /\ wsClient.alive
    /\ ~deviceInfo.isProvisioned


(***************************************************************************)
(* The error ledger over a long run of reports (checked under SpecLedger)  *)
(***************************************************************************)
\* the kinds reported in the long run: the two whose recovery never restarts
\* the device, so that their counts are never reset by a boot
LedgerCodes == {"WIFI_CONNECTION_FAILED", "WEBSOCKET_CONNECTION_FAILED"}

InitLedger == PowerOn("ledger")

\* the n-th call of reportError, one millisecond after the previous call
LedgerReport(code) ==
    /\ pc = "ledger"
    /\ now < MaxLedgerCalls
    /\ now' = now + 1
    /\ errorHandler' = ReportError(errorHandler, code, now')
    /\ UNCHANGED <<pc, currentState, stateChangeTime, wifiRetryBackoff,
                   connectStartTime, attemptInProgress, registrationAttempted,
                   registrationSuccessful, lastWiFiCheck, wsClient,
                   deviceInfo, lastStatusUpdate, prefs, wifi, observed,
                   heartbeatCount, prevState, joinLog, factoryResetHandled,
                   restartCause>>

\* clearError() at the end of handleError
LedgerClear ==
    /\ pc = "ledger"
    /\ errorHandler.lastError # "NONE"
    /\ errorHandler' = ClearError(errorHandler)
    /\ UNCHANGED <<now, pc, currentState, stateChangeTime, wifiRetryBackoff,
                   connectStartTime, attemptInProgress, registrationAttempted,
                   registrationSuccessful, lastWiFiCheck, wsClient,
                   deviceInfo, lastStatusUpdate, prefs, wifi, observed,
                   heartbeatCount, prevState, joinLog, factoryResetHandled,
                   restartCause>>

NextLedger ==
    \/ \E code \in LedgerCodes : LedgerReport(code)
    \/ LedgerClear

SpecLedger == InitLedger /\ [][NextLedger]_vars

\* C26: error counts only increase until an explicit clear: for any number
\* of reportError calls, each call raises the count of the reported kind
\* and the total count by exactly one, and no call (reportError or
\* clearError) lowers any count.
C26_CountsOnlyIncrease ==
    [][pc = "ledger" =>
         /\ \A k \in LedgerCodes :
               errorHandler'.errorCounts[k] >= errorHandler.errorCounts[k]
         /\ errorHandler'.totalErrorCount >= errorHandler.totalErrorCount
         /\ now' # now =>
               /\ errorHandler'.totalErrorCount =
                     errorHandler.totalErrorCount + 1
               /\ errorHandler'.errorCounts[errorHandler'.lastError] =
                     errorHandler.errorCounts[errorHandler'.lastError] + 1]_vars


(***************************************************************************)
(* The recovery cooldown                                                   *)
(***************************************************************************)
\* handleError got past shouldPerformRecovery() and executed a recovery
\* action: every action leaves STATE_ERROR or restarts the device
RecoveryStep ==
    /\ pc = "state"
    /\ currentState = STATE_ERROR
    /\ (RestartStep \/ currentState' # STATE_ERROR)

\* C27: any two consecutive recovery actions executed by handleError are
\* separated by at least ERROR_RECOVERY_DELAY, and no recovery action runs
\* sooner than the cooldown after the most recent error report.  A recovery
\* action runs more than the cooldown after the last report and more than
\* the cooldown after the last change of state; it stamps the state change
\* it makes with its own time, and the time of the last state change never
\* goes back within one boot, so the state change a recovery action finds
\* is at or after the previous recovery action.  A run of handleError
\* within the cooldown does nothing.
C27_RecoveryActionsKeepCooldown ==
    [][/\ RecoveryStep =>
            /\ now - errorHandler.lastErrorTime > ERROR_RECOVERY_DELAY
            /\ now - stateChangeTime > ERROR_RECOVERY_DELAY
            /\ errorHandler.lastErrorTime >= stateChangeTime
            /\ RestartStep \/ stateChangeTime' = now
       /\ (pc = "state" /\ currentState = STATE_ERROR
              /\ now - errorHandler.lastErrorTime <= ERROR_RECOVERY_DELAY) =>
            /\ ~RecoveryStep
            /\ errorHandler' = errorHandler
            /\ wsClient' = wsClient
            /\ wifi' = wifi
       /\ ~RestartStep => stateChangeTime' >= stateChangeTime]_vars

\* the second recovery action of one boot has just run: registration
\* failed twice, each failure entered Fault, and both were retried
C27_Witness ==
    /\ pc = "periodic"
    /\ prevState = STATE_ERROR
    /\ currentState # STATE_ERROR
    /\ stateChangeTime = now
    /\ errorHandler.lastError = "NONE"
    /\ errorHandler.errorCounts["DEVICE_REGISTRATION_FAILED"] = 2
    /\ now - errorHandler.lastErrorTime > ERROR_RECOVERY_DELAY


(***************************************************************************)
(* The idle reset of the session retry counter (checked under SpecOutage)  *)
(***************************************************************************)
\* wsClient->loop() runs on a disconnected session when the idle window has
\* elapsed, since the last reset of the counter or since the last attempt
IdleWindowElapsed ==
    /\ WsStep
    /\ wsClient.alive
    /\ ~wsClient.isConnected
    /\ \/ now - wsClient.lastRetryReset > RETRY_RESET_INTERVAL
       \/ now - wsClient.lastConnectionAttempt > RETRY_RESET_INTERVAL

SessionLivenessChecked == WsStep /\ wsClient.alive /\ wsClient.isConnected

\* handlePeriodicTasks runs: the WiFi check and the status cadence
StatusCadenceChecked == pc = "periodic" /\ pc' = "tick"

\* C29 as stated: within one tick of loop() the state's step function runs
\* to completion before the periodic and background tasks, namely the
\* session liveness check and the status cadence, are evaluated, and
\* exactly one state's step function runs per tick.
C29_StateStepBeforeBackgroundTasks ==
    [][/\ (SessionLivenessChecked \/ StatusCadenceChecked) => pc = "periodic"
       /\ pc = "state" => (pc' = "periodic" \/ RestartStep)
       /\ pc = "periodic" => pc' = "tick"]_vars

\* C29 amended: one tick of loop() runs the session client's loop(), with
\* its poll, heartbeat and liveness check, to completion first, then
\* exactly one state's step function, then the periodic tasks (the WiFi
\* check and the status cadence).  The liveness check is therefore
\* evaluated before the state-step of the same tick, the status cadence
\* after it; outside loop() only setup() sets the state.
C29_SessionLoopThenStateStepThenPeriodic ==
    [][/\ pc = "tick" => (pc' = "ws" \/ RestartStep)
       /\ pc = "ws" => pc' = "state"
       /\ pc = "state" => (pc' = "periodic" \/ RestartStep)
       /\ pc = "periodic" => pc' = "tick"
       /\ SessionLivenessChecked =>
             \E ev \in PollEvents, ok \in BOOLEAN :
                /\ wsClient' = WsLoop(X, ev, ok, now).c
                /\ wsClient'.isConnected =>
                      ~LivenessTimedOut(Poll(X, ev, now), now)
       /\ (wsClient.alive /\ wsClient'.alive
              /\ wsClient'.lastHeartbeat # wsClient.lastHeartbeat) =>
             pc \in {"ws", "state"}
       /\ (lastStatusUpdate' # lastStatusUpdate /\ ~RestartStep) =>
             StatusCadenceChecked
       /\ (lastWiFiCheck' # lastWiFiCheck /\ ~RestartStep) =>
             StatusCadenceChecked
       /\ (currentState' # currentState /\ ~RestartStep) =>
             (StateStep \/ StatusCadenceChecked \/ pc = "setup")]_vars

\* a tick in which the session loop ran on a live session with the
\* liveness check armed, the state-step then moved the machine, and the
\* periodic tasks are still to run
C29_Witness ==
    /\ pc = "periodic"
    /\ wsClient.alive
    /\ wsClient.isConnected
    /\ wsClient.lastPongReceived > 0
    /\ wsClient.lastHeartbeat = now
    /\ stateChangeTime = now
    /\ currentState = STATE_WAITING_FOR_CLAIM
    /\ prevState = STATE_OPERATIONAL
    /\ now - lastStatusUpdate > STATUS_UPDATE_INTERVAL


(***************************************************************************)
(* Ownership of the session client (checked under SpecOwnership): the      *)
(* lifecycle with the WiFi link held and a silent backend, session connects *)
(* and allocations that may fail and the serial restart command, long      *)
(* enough for the session component to be restarted                        *)
(***************************************************************************)
OwnershipTick(d, link) ==
    /\ now + d <= MaxOwnershipTime
    /\ LoopStart(d, link)

NextOwnership ==
    \/ Setup(TRUE)
    \/ \E d \in TickDeltas : OwnershipTick(d, wifi.connected)
    \/ PortalSave
    \/ SerialRestart
    \/ \E ok \in BOOLEAN : LoopWsClient("none", ok)
    \/ HandleWiFiSetup
    \/ \E d \in {0} \cup JoinOkDelays : HandleWiFiConnecting(TRUE, d)
    \/ \E resp \in RegistrationResponses, memOk \in BOOLEAN,
          wsOk \in BOOLEAN :
          HandleDeviceRegistration(TRUE, resp, memOk, wsOk)
    \/ HandleWaitingForClaim
    \/ HandleOperational
    \/ HandleError
    \/ HandlePeriodicTasks(FALSE)

SpecOwnership == Init /\ [][NextOwnership]_vars

\* handleError restarts the session component
SessionComponentRestart ==
    /\ pc = "state"
    /\ currentState = STATE_ERROR
    /\ currentState' = STATE_DEVICE_REGISTRATION

\* C30: at most one session client object exists at any time: the
\* orchestrator destroys the existing one before it creates a new one on a
\* registration attempt, and destroys it on a session-component restart and
\* on a full restart.  After every step the heap holds one WSClient object
\* when wsClient points to one and none otherwise; a session-component
\* restart and the cleanup before a restart leave none.
C30_AtMostOneSessionClient ==
    [][/\ observed'.objects <= 1
       /\ wsClient'.alive <=> observed'.objects = 1
       /\ SessionComponentRestart =>
             ~wsClient'.alive /\ observed'.objects = 0
       /\ RestartStep =>
             /\ ~wsClient'.alive /\ observed'.objects = 0
             /\ PerformGlobalCleanup(X, now).o.objects = 0]_vars

\* a registration attempt made while the object of an earlier attempt, whose
\* connect had failed, was still there: it has replaced that object
C30_Witness ==
    /\ pc = "periodic"
    /\ currentState \in {STATE_WAITING_FOR_CLAIM, STATE_OPERATIONAL}
    /\ prevState = STATE_DEVICE_REGISTRATION
    /\ stateChangeTime = now
    /\ wsClient.alive
    /\ wsClient.isConnected
    /\ observed.objects = 1
    /\ errorHandler.errorCounts["WEBSOCKET_CONNECTION_FAILED"] = 1

\* the session component has just been restarted
C30_ComponentRestartReached ==
    /\ pc = "periodic"
    /\ currentState = STATE_DEVICE_REGISTRATION
    /\ prevState = STATE_ERROR
    /\ ~wsClient.alive
    /\ errorHandler.errorCounts["WEBSOCKET_CONNECTION_FAILED"] >= 5


(***************************************************************************)
(* The delay formula (checked under SpecBackoff)                           *)
(***************************************************************************)
\* b to the power n
Power(b, n) == IF n = 0 THEN 1 ELSE b ^ n

\* C31: in every reachable state of a backoff instance the delay matches the
\* formula: currentDelay = min(initialDelay * multiplier^attemptCount,
\* maxDelay) for ExponentialBackoff, and the session retry interval =
\* min(base * 2^retryAttempts, maximum interval) for WSClient.
C31_DelayMatchesFormula ==
    /\ wifiRetryBackoff.currentDelay =
          Min(wifiRetryBackoff.initialDelay
                 * Power(wifiRetryBackoff.multiplier,
                         wifiRetryBackoff.attemptCount),
              wifiRetryBackoff.maxDelay)
    /\ wsClient.alive =>
          RetryInterval(wsClient.retryAttempts) =
             Min(REGISTRATION_RETRY_INTERVAL
                    * Power(2, wsClient.retryAttempts),
                 MAX_RETRY_INTERVAL)

\* three attempts recorded with the delay still below the maximum, and a
\* session that has retried twice
C31_Witness ==
    /\ pc = "backoff"
    /\ wifiRetryBackoff.attemptCount = 3
    /\ wifiRetryBackoff.currentDelay = 8 * wifiRetryBackoff.initialDelay
    /\ wifiRetryBackoff.currentDelay < wifiRetryBackoff.maxDelay
    /\ wsClient.alive
    /\ wsClient.retryAttempts = 2
    /\ RetryInterval(wsClient.retryAttempts) = 20000


(***************************************************************************)
(* The status cadence (checked under SpecOutage)                           *)
(***************************************************************************)
\* handlePeriodicTasks calls DeviceManager::updateStatus(): the state is
\* Registering or later, past the grace period, the cadence is due and the
\* WiFi link is up (so the WiFi check of the same call has not moved the
\* state)
StatusPushAttempted ==
    /\ StatusCadenceChecked
    /\ currentState >= STATE_DEVICE_REGISTRATION
    /\ (currentState > STATE_DEVICE_REGISTRATION
          \/ now - stateChangeTime > 10000)
    /\ ShouldUpdateStatus(now)
    /\ wifi.connected

\* C32: periodic status pushes follow the status cadence: after any push
\* attempt, whether it succeeded or failed, the next push is attempted only
\* after more than STATUS_UPDATE_INTERVAL has elapsed.  A push attempt
\* leaves the cadence not due, so that the next attempt has to wait for the
\* interval to pass again.
C32_PushAttemptRestartsCadence ==
    [][StatusPushAttempted =>
          now' - lastStatusUpdate' <= STATUS_UPDATE_INTERVAL]_vars


(***************************************************************************)
(* Fault and the error ledger                                              *)
(***************************************************************************)
\* C33: whenever the lifecycle state is Fault at the start of a state-step,
\* the ledger's last error is not NONE: every transition into Fault is
\* preceded by a reportError call, made in the same step at the same time,
\* and clearError runs only in a recovery step, which leaves Fault (a
\* restart starts with an empty ledger, in Init).
C33_FaultHasLastError ==
    [][/\ (pc' = "state" /\ currentState' = STATE_ERROR) =>
             errorHandler'.lastError # "NONE"
       /\ (currentState # STATE_ERROR /\ currentState' = STATE_ERROR) =>
             /\ errorHandler'.lastError # "NONE"
             /\ errorHandler'.lastErrorTime = now'
             /\ errorHandler'.totalErrorCount
                   = errorHandler.totalErrorCount + 1
       /\ (errorHandler.lastError # "NONE"
              /\ errorHandler'.lastError = "NONE") =>
             (RecoveryStep \/ RestartStep)]_vars

\* Fault entered a second time in one boot, after the first error had been
\* cleared by its recovery step, and handleError is about to run
C33_Witness ==
    /\ pc = "state"
    /\ currentState = STATE_ERROR
    /\ stateChangeTime < now
    /\ errorHandler.lastError = "DEVICE_REGISTRATION_FAILED"
    /\ errorHandler.errorCounts["DEVICE_REGISTRATION_FAILED"] = 2
    /\ ShouldPerformRecovery(errorHandler, now)

\* C34: while the lifecycle state is Fault, no new error is reported to the
\* ledger by the periodic connectivity check, so that a single failure
\* episode raises the count of its kind by exactly one before the recovery
\* step runs.
C34_NoReportWhileInFault ==
    [][(StatusCadenceChecked /\ currentState = STATE_ERROR) =>
          errorHandler' = errorHandler]_vars


(***************************************************************************)
(* The session client in AwaitingClaim and Operational                     *)
(***************************************************************************)
\* C35: whenever the lifecycle state is AwaitingClaim or Operational, a
\* session client object exists (the session pointer is not null).
C35_SessionClientExists ==
    currentState \in {STATE_WAITING_FOR_CLAIM, STATE_OPERATIONAL} =>
       wsClient.alive /\ observed.objects = 1

\* an operational device whose session was closed by the backend: the
\* object is still there, waiting to reconnect
C35_Witness ==
    /\ currentState = STATE_OPERATIONAL
    /\ pc = "periodic"
    /\ wsClient.alive
    /\ ~wsClient.isConnected
    /\ observed.closedBy = "remote"
    /\ observed.objects = 1


(***************************************************************************)
(* The online flag                                                         *)
(***************************************************************************)
\* C36: the device's online flag is true only while a session client exists
\* and is marked connected: every operation that marks the session
\* disconnected or destroys it also leaves the online flag false, and the
\* flag is set true only by a heartbeat sent on a connected session.
C36_OnlineOnlyWhileConnected ==
    [][/\ deviceInfo'.isOnline => (wsClient'.alive /\ wsClient'.isConnected)
       /\ (~deviceInfo.isOnline /\ deviceInfo'.isOnline) =>
             /\ HeartbeatSent
             /\ wsClient.alive /\ wsClient.isConnected
             /\ wsClient'.lastHeartbeat = now
       /\ wsClient.alive =>
             /\ ~Disconnect(X, now).d.isOnline
             /\ ~DeleteWSClient(X, now).d.isOnline
             /\ ~OnConnectionClosed(X, now).d.isOnline
             /\ ~AfterIsClientConnected([X EXCEPT !.c.available = FALSE])
                    .d.isOnline]_vars

\* the session that had been marked online by its heartbeat has been closed
\* by the backend
C36_Witness ==
    /\ pc = "state"
    /\ wsClient.alive
    /\ ~wsClient.isConnected
    /\ wsClient.lastHeartbeat = now
    /\ wsClient.lastHeartbeat > observed.openedAt
    /\ observed.openedAt > 0
    /\ wsClient.lastConnectionAttempt = now
    /\ ~deviceInfo.isOnline


(***************************************************************************)
(* The retry recovery                                                      *)
(***************************************************************************)
\* handleError runs the RETRY_OPERATION recovery
RetryRecoveryStep ==
    /\ RecoveryStep
    /\ GetRecoveryStrategy(errorHandler, errorHandler.lastError)
          = "RETRY_OPERATION"

\* C37: when the recovery strategy is RETRY_OPERATION, the recovery step
\* always moves the machine from Fault to NetworkSetup, whichever step had
\* failed: the state at the time of recovery is always Fault, so the
\* branches that test for NetworkConnecting or Registering are never taken.
C37_RetryGoesToNetworkSetup ==
    [][RetryRecoveryStep =>
          /\ currentState = STATE_ERROR
          /\ currentState' = STATE_WIFI_SETUP
          /\ RetryTarget(currentState) = STATE_WIFI_SETUP
          /\ ~RestartStep]_vars

\* a failed registration has just been retried: the machine is back in
\* NetworkSetup, not in NetworkConnecting
C37_Witness ==
    /\ pc = "periodic"
    /\ currentState = STATE_WIFI_SETUP
    /\ prevState = STATE_ERROR
    /\ stateChangeTime = now
    /\ errorHandler.lastError = "NONE"
    /\ errorHandler.errorCounts["DEVICE_REGISTRATION_FAILED"] = 1
    /\ errorHandler.totalErrorCount = 1


(***************************************************************************)
(* Outbound traffic                                                        *)
(***************************************************************************)
\* a step in which the session handed a message or a ping to the library
OutboundSent ==
    \/ HeartbeatSent /\ ~RestartStep /\ pc # "setup"
    \/ /\ observed'.sent # observed.sent
       /\ observed'.sent # <<>>

\* C38: no outbound message or heartbeat is ever sent while the session is
\* marked disconnected: registerDevice, sendDeviceStatus, sendMessage,
\* sendHeartbeat and the factory-reset acknowledgment each ask
\* isClientConnected() before client.send() or client.ping().  No message
\* and no ping has ever left with isConnected false, and a step that sends
\* works on a session object that exists and, unless the step is the one
\* whose connect() opened the session, starts with it marked connected.
C38_NoSendWhileDisconnected ==
    [][/\ ~observed'.offline
       /\ OutboundSent =>
            /\ wsClient'.alive
            /\ wsClient.isConnected \/ OpenStep]_vars

\* a connected session that has sent its announcement, a heartbeat and,
\* when the factory-reset command arrived on it, the acknowledgment
C38_Witness ==
    /\ IsClientConnected(X)
    /\ heartbeatCount >= 1
    /\ Len(observed.sent) >= 2
    /\ factoryResetHandled
    /\ ~deviceInfo.isProvisioned
    /\ ~observed.offline


(***************************************************************************)
(* Failed registration                                                     *)
(***************************************************************************)
\* handleDeviceRegistration got false from registerMinimalWithServer: it
\* reports DEVICE_REGISTRATION_FAILED
RegistrationFailedStep ==
    /\ pc = "state"
    /\ pc' = "periodic"
    /\ currentState = STATE_DEVICE_REGISTRATION
    /\ errorHandler'.errorCounts["DEVICE_REGISTRATION_FAILED"]
          # errorHandler.errorCounts["DEVICE_REGISTRATION_FAILED"]

\* C39: a failed minimal registration (an HTTP response other than 200 or
\* 201, or an empty server URL) returns false and leaves the device
\* identity and the provisioned flag, in memory and in persistent storage,
\* unchanged.  The step in which registration fails changes neither
\* deviceInfo nor the preferences in flash, does not mark the registration
\* successful, and ends in Fault with DEVICE_REGISTRATION_FAILED reported.
C39_FailedRegistrationKeepsIdentity ==
    [][RegistrationFailedStep =>
         /\ deviceInfo' = deviceInfo
         /\ prefs' = prefs
         /\ ~registrationSuccessful'
         /\ currentState' = STATE_ERROR
         /\ errorHandler'.lastError = "DEVICE_REGISTRATION_FAILED"]_vars

\* a claimed device whose registration has just failed
C39_Witness ==
    /\ pc = "periodic"
    /\ currentState = STATE_ERROR
    /\ stateChangeTime = now
    /\ errorHandler.lastError = "DEVICE_REGISTRATION_FAILED"
    /\ deviceInfo.isProvisioned
    /\ deviceInfo.hasDeviceId
    /\ prefs.provisioned
    /\ prefs.deviceId


(***************************************************************************)
(* Range of the session retry counter (checked under SpecBackoff)          *)
(***************************************************************************)
\* C40: the session retry counter always satisfies 0 <= retryAttempts <= 5
\* after any sequence of shouldRetryConnection calls and connection events,
\* so base << retryAttempts never overflows and the computed retry interval
\* never exceeds the 30 s maximum.  In every reachable state the counter is
\* in 0..5, the product REGISTRATION_RETRY_INTERVAL * (1 << retryAttempts)
\* is at most 32 times the base, far inside 32 bits, and the interval the
\* next shouldRetryConnection call computes is at most MAX_RETRY_INTERVAL.
C40_RetryCounterInRange ==
    /\ wsClient.retryAttempts \in 0..RetryBudget
    /\ REGISTRATION_RETRY_INTERVAL * Shl1(wsClient.retryAttempts)
          <= REGISTRATION_RETRY_INTERVAL * 32
    /\ REGISTRATION_RETRY_INTERVAL * 32 < 2147483647
    /\ RetryInterval(wsClient.retryAttempts) <= MAX_RETRY_INTERVAL

\* a session whose counter stands at the cap after one more retry than the
\* cap counts
C40_Witness ==
    /\ wsClient.alive
    /\ ~wsClient.isConnected
    /\ wsClient.retryAttempts = RetryBudget
    /\ observed.connects > RetryBudget

====
